---- MODULE Spec2Model ----
(***************************************************************************)
(* A model of the evaluation-metrics pipeline: the Collector (suite        *)
(* registry, per-case records, active-record resolution), the baseline     *)
(* store (upsert / resolve / compare) and the aggregator's pass-rate       *)
(* computation.                                                            *)
(*                                                                         *)
(* JavaScript strings are modelled as sequences of one-character strings,  *)
(* so that concatenation, indexOf, slice, startsWith and endsWith are      *)
(* computed as the code computes them.  JavaScript objects whose keys are  *)
(* enumerated (Object.entries / Object.keys) are sequences of <<key,       *)
(* value>> pairs in insertion order.  JavaScript numbers are exact         *)
(* rationals <<"num", n, d>>, the infinities <<"inf", s>> and <<"nan">>;   *)
(* floating-point rounding and the sign of zero are not modelled.          *)
(***************************************************************************)
EXTENDS Integers, Sequences, FiniteSets, TLC

VARIABLES
    \* ---- Collector (src/unnamed/part_001) ----
    suiteConfigs,         \* Map<string, SuiteConfig>
    suiteNames,           \* Map<string, string>
    evalFiles,            \* Map<string, string>
    testResults,          \* TestMetrics[]: references (heap indices), in push order
    heap,                 \* the TestMetrics objects ever created, by reference
    legacyCurrentEntry,   \* reference or Null
    currentEntryStorage,  \* AsyncLocalStorage: the store of each runTest call's context
    body,                 \* each runTest call's body: idle / running / returned / threw
    promise,              \* each runTest call's promise: idle / pending / fulfilled / rejected
    lastCall,             \* the most recent Collector call: operation, context, result
    nCalls,               \* calls made so far, by kind (bounds the exploration)
    tokenLog,             \* history: the recordTokens usages applied to each TestMetrics object
    registrations,        \* history: the registerSuite calls since the last reset
    waiter,               \* the promise withTimeout returns for the running cases
    abandoned,            \* history: the runTest calls pending when the timer fired
    \* ---- baseline store (src/src/baseline.ts) ----
    baselineDoc,          \* the baseline document of one eval file (or Null)
    upserted,             \* the upsert calls made on it, oldest first
    \* ---- compareMetrics (src/src/baseline.ts) ----
    cmpIn,                \* <<current, baseline>> given to compareMetrics
    cmpOut,               \* its result (or Null before the call)
    \* ---- aggregateMetrics (src/src/run.ts) ----
    aggIn,                \* <<tests, suiteConfig>> given to aggregateMetrics
    aggOut                \* its result (or Null before the call)

collectorVars == <<suiteConfigs, suiteNames, evalFiles, testResults, heap,
                   legacyCurrentEntry, currentEntryStorage, body, promise,
                   lastCall, nCalls, tokenLog, registrations, waiter, abandoned>>
timeoutVars == <<waiter, abandoned>>
baselineVars == <<baselineDoc, upserted>>
compareVars == <<cmpIn, cmpOut>>
aggregateVars == <<aggIn, aggOut>>
vars == <<collectorVars, baselineVars, compareVars, aggregateVars>>

Null == <<"null">>
Undefined == <<"undefined">>

(***************************************************************************)
(* Bounds of the exploration.                                              *)
(***************************************************************************)
MaxTasks == 2        \* runTest calls
MaxEntries == 2      \* TestMetrics objects created (runTest + beginTest)
MaxRecordings == 2   \* recording calls
MaxRegistrations == 3 \* registerSuite / configureSuite / setEvalFile calls
MaxResets == 1       \* reset calls
MaxUpserts == 2      \* upsertSuiteBaseline calls on one document

(***************************************************************************)
(* Strings.                                                                *)
(***************************************************************************)
StartsWith(s, p) == Len(s) >= Len(p) /\ SubSeq(s, 1, Len(p)) = p

EndsWith(s, p) == Len(s) >= Len(p) /\ SubSeq(s, Len(s) - Len(p) + 1, Len(s)) = p

\* String.prototype.indexOf: the 0-based index of the first occurrence, or -1
IndexOf(s, p) ==
    LET hits == {i \in 0..(Len(s) - Len(p)) : SubSeq(s, i + 1, i + Len(p)) = p}
    IN IF hits = {} THEN -1 ELSE CHOOSE i \in hits : \A j \in hits : i <= j

Includes(s, p) == IndexOf(s, p) # -1

\* String.prototype.slice(from), slice(from, to) with 0 <= from <= to
SliceFrom(s, from) == SubSeq(s, from + 1, Len(s))
Slice(s, from, to) == SubSeq(s, from + 1, to)

\* the decimal numeral of a natural number (template literal `${n}`)
RECURSIVE IntToStr(_)
IntToStr(n) ==
    LET digit == <<"0", "1", "2", "3", "4", "5", "6", "7", "8", "9">>[(n % 10) + 1]
    IN IF n < 10 THEN <<digit>> ELSE IntToStr(n \div 10) \o <<digit>>

(***************************************************************************)
(* Numbers.                                                                *)
(***************************************************************************)
NaN == <<"nan">>
Inf(s) == <<"inf", s>>

RECURSIVE Gcd(_, _)
Gcd(a, b) == IF b = 0 THEN a ELSE Gcd(b, a % b)

Abs(n) == IF n < 0 THEN -n ELSE n
Sign(n) == IF n < 0 THEN -1 ELSE 1

\* the number n/d, in lowest terms with a positive denominator
Rat(n, d) ==
    LET g == Gcd(Abs(n), Abs(d))
    IN <<"num", Sign(d) * (n \div g), Abs(d) \div g>>

Num(n) == <<"num", n, 1>>

IsNaN(x) == x[1] = "nan"
IsInf(x) == x[1] = "inf"
IsFinite(x) == x[1] = "num"
\* typeof x === "number"
IsNumber(x) == x[1] \in {"num", "inf", "nan"}
SignOf(x) == IF IsInf(x) THEN x[2] ELSE Sign(x[2])
IsZero(x) == IsFinite(x) /\ x[2] = 0

JsAdd(x, y) ==
    IF IsNaN(x) \/ IsNaN(y) THEN NaN
    ELSE IF IsInf(x) /\ IsInf(y) THEN (IF x[2] = y[2] THEN x ELSE NaN)
    ELSE IF IsInf(x) THEN x
    ELSE IF IsInf(y) THEN y
    ELSE Rat(x[2] * y[3] + y[2] * x[3], x[3] * y[3])

JsMul(x, y) ==
    IF IsNaN(x) \/ IsNaN(y) THEN NaN
    ELSE IF IsInf(x) \/ IsInf(y)
         THEN (IF IsZero(x) \/ IsZero(y) THEN NaN ELSE Inf(SignOf(x) * SignOf(y)))
    ELSE Rat(x[2] * y[2], x[3] * y[3])

JsNeg(x) ==
    IF IsNaN(x) THEN NaN
    ELSE IF IsInf(x) THEN Inf(-x[2])
    ELSE <<"num", -x[2], x[3]>>

JsSub(x, y) == JsAdd(x, JsNeg(y))

JsDiv(x, y) ==
    IF IsNaN(x) \/ IsNaN(y) THEN NaN
    ELSE IF IsInf(x) THEN (IF IsInf(y) THEN NaN ELSE Inf(SignOf(x) * SignOf(y)))
    ELSE IF IsInf(y) THEN Num(0)
    ELSE IF IsZero(y) THEN (IF IsZero(x) THEN NaN ELSE Inf(SignOf(x)))
    ELSE Rat(x[2] * y[3], x[3] * y[2])

\* x < y
JsLt(x, y) ==
    IF IsNaN(x) \/ IsNaN(y) THEN FALSE
    ELSE IF IsInf(x) THEN x[2] = -1 /\ y # x
    ELSE IF IsInf(y) THEN y[2] = 1
    ELSE x[2] * y[3] < y[2] * x[3]

\* x > y
JsGt(x, y) == JsLt(y, x)

(***************************************************************************)
(* Objects: sequences of <<key, value>> in insertion order.                *)
(***************************************************************************)
OKeys(o) == [i \in 1..Len(o) |-> o[i][1]]
OHas(o, k) == \E i \in 1..Len(o) : o[i][1] = k
\* o[k], Undefined when absent
OGet(o, k) ==
    IF OHas(o, k) THEN o[CHOOSE i \in 1..Len(o) : o[i][1] = k][2] ELSE Undefined
\* o[k] = v: in place when the key exists, appended otherwise
OSet(o, k, v) ==
    IF OHas(o, k)
    THEN [i \in 1..Len(o) |-> IF o[i][1] = k THEN <<k, v>> ELSE o[i]]
    ELSE Append(o, <<k, v>>)
\* delete o[k]
ODelete(o, k) == SelectSeq(o, LAMBDA e : e[1] # k)

\* Map.prototype.set on a Map that is never enumerated
MapSet(m, k, v) == [x \in DOMAIN m \cup {k} |-> IF x = k THEN v ELSE m[x]]
EmptyMap == [x \in {} |-> Null]

(***************************************************************************)
(* Collector (src/unnamed/part_001).                                       *)
(***************************************************************************)
UNKNOWN == <<"<", "u", "n", "k", "n", "o", "w", "n", ">">>
SEP == <<":", ":">>
S_s == <<"s">>
S_s2 == <<"s", "#", "2">>
S_a == <<"a">>
S_b == <<"b">>
S_value == <<"v">>
S_exact == <<"e">>
S_error == <<"e", "r", "r", "o", "r">>
S_scoreDot == <<"s", "c", "o", "r", "e", ".">>
S_tokensInput == <<"t", "o", "k", "e", "n", "s", ".", "i", "n", "p", "u", "t">>
S_tokensOutput == <<"t", "o", "k", "e", "n", "s", ".", "o", "u", "t", "p", "u", "t">>
S_tokensTotal == <<"t", "o", "k", "e", "n", "s", ".", "t", "o", "t", "a", "l">>
PathA == <<"/", "a", ".", "e", "v", "a", "l", ".", "t", "s">>
PathB == <<"/", "b", ".", "e", "v", "a", "l", ".", "t", "s">>

\* the arguments the callers are drawn from
Tasks == 1..MaxTasks
Outside == 0                       \* a caller outside every runTest body
NoEntry == 0                       \* null / undefined reference
SuiteNameArgs == {S_s, S_s2}
EvalPathArgs == {Undefined, PathA}
ConfigArgs == {[passThreshold |-> Rat(1, 10)], [passThreshold |-> Rat(9, 10)]}
ConfigureNameArgs == {S_s, S_s2}
TestNameArgs == {S_a}
MetricArgs == {<<S_value, Num(1)>>}
ScoreArgs == {<<S_exact, Num(1)>>}
UsageArgs ==
    { [promptTokens |-> Num(2), completionTokens |-> Num(3), totalTokens |-> Undefined],
      [promptTokens |-> Num(4), completionTokens |-> Num(5), totalTokens |-> Num(20)],
      [promptTokens |-> Num(1), completionTokens |-> Num(1), totalTokens |-> Num(0)] }
WeightArgs == {Num(2)}
PassedArgs == {FALSE}
ContextArgs == {[input |-> <<"in">>, output |-> <<"out">>, expected |-> <<"exp">>]}
ScorerResultArgs == {[name |-> S_exact, score |-> Num(1)]}
Exceptions == {"E1"}
ReturnValues == {"ok"}

RecordingOps == {"recordMetric", "recordScore", "recordTokens", "setWeight",
                 "setTestPassed", "setTestContext", "addScorerResult"}

\* a slip: the new record is put in front of the list
Unshift(list, ref) == <<ref>> \o list

\* Array.prototype.push
Push(list, ref) == Append(list, ref)

createTestEntry(suiteKey, suiteName, testName) ==
    [suiteKey |-> suiteKey, suiteName |-> suiteName, testName |-> testName,
     metrics |-> <<>>, weight |-> Num(1), passed |-> TRUE, scorerResults |-> <<>>,
     input |-> Undefined, output |-> Undefined, expected |-> Undefined]

\* the while loop of createSuiteKey: the first suffix whose candidate is free
RECURSIVE FirstFreeSuffix(_, _)
FirstFreeSuffix(baseKey, suffix) ==
    IF (baseKey \o <<"#">> \o IntToStr(suffix)) \in DOMAIN suiteConfigs
    THEN FirstFreeSuffix(baseKey, suffix + 1)
    ELSE suffix

\* a slip: a collision always gets the suffix #2, without looking for a free one
createSuiteKeyNoLoop(suiteName, evalFilePath) ==
    LET identity == IF evalFilePath \in {Undefined, Null} THEN UNKNOWN ELSE evalFilePath
        baseKey == identity \o SEP \o suiteName
    IN IF baseKey \notin DOMAIN suiteConfigs
       THEN baseKey
       ELSE baseKey \o <<"#", "2">>

createSuiteKey(suiteName, evalFilePath) ==
    LET identity == IF evalFilePath \in {Undefined, Null} THEN UNKNOWN ELSE evalFilePath
        baseKey == identity \o SEP \o suiteName
    IN IF baseKey \notin DOMAIN suiteConfigs
       THEN baseKey
       ELSE baseKey \o <<"#">> \o IntToStr(FirstFreeSuffix(baseKey, 2))

\* truthiness of an optional string argument
Truthy(x) == x \notin {Undefined, Null, <<>>}

\* AsyncLocalStorage.getStore() in the calling context
getStore(ctx) == IF ctx = Outside THEN NoEntry ELSE currentEntryStorage[ctx]

\* a slip: the active record is one slot shared by every context (the record
\* of the most recent runTest call), as with enterWith instead of run
currentEntryShared(ctx) ==
    LET bound == {t \in Tasks : currentEntryStorage[t] # NoEntry}
    IN IF bound # {}
       THEN currentEntryStorage[CHOOSE t \in bound : \A u \in bound : u <= t]
       ELSE legacyCurrentEntry

\* a slip: the single shared slot is consulted before the context's store
currentEntryLegacyFirst(ctx) ==
    LET activeEntry == getStore(ctx)
    IN IF legacyCurrentEntry # NoEntry THEN legacyCurrentEntry
       ELSE IF activeEntry # NoEntry THEN activeEntry
       ELSE NoEntry

\* a slip: with nothing active, the most recently pushed record is used
currentEntryLastResult(ctx) ==
    LET activeEntry == getStore(ctx)
    IN IF activeEntry # NoEntry THEN activeEntry
       ELSE IF legacyCurrentEntry # NoEntry THEN legacyCurrentEntry
       ELSE IF testResults # <<>> THEN testResults[Len(testResults)]
       ELSE NoEntry

currentEntry(ctx) ==
    LET activeEntry == getStore(ctx)
    IN IF activeEntry # NoEntry THEN activeEntry
       ELSE IF legacyCurrentEntry # NoEntry THEN legacyCurrentEntry
       ELSE NoEntry

numberMetric(value) == IF IsNumber(value) THEN value ELSE Num(0)

\* what each recording operation does to the entry it resolved
recordMetricOn(entry, name, value) ==
    [entry EXCEPT !.metrics = OSet(@, name, value)]

recordScoreOn(entry, name, value) ==
    [entry EXCEPT !.metrics = OSet(@, S_scoreDot \o name, value)]

NextTotal(usage) ==
    IF usage.totalTokens \in {Undefined, Null}
    THEN JsAdd(usage.promptTokens, usage.completionTokens)
    ELSE usage.totalTokens

\* a slip: the usage is stored, not added to the running totals
recordTokensOnOverwrite(entry, usage) ==
    LET m1 == OSet(entry.metrics, S_tokensInput, usage.promptTokens)
        m2 == OSet(m1, S_tokensOutput, usage.completionTokens)
        m3 == OSet(m2, S_tokensTotal, NextTotal(usage))
    IN [entry EXCEPT !.metrics = m3]

recordTokensOn(entry, usage) ==
    LET currentInput == numberMetric(OGet(entry.metrics, S_tokensInput))
        currentOutput == numberMetric(OGet(entry.metrics, S_tokensOutput))
        currentTotal == numberMetric(OGet(entry.metrics, S_tokensTotal))
        nextTotal == NextTotal(usage)
        m1 == OSet(entry.metrics, S_tokensInput, JsAdd(currentInput, usage.promptTokens))
        m2 == OSet(m1, S_tokensOutput, JsAdd(currentOutput, usage.completionTokens))
        m3 == OSet(m2, S_tokensTotal, JsAdd(currentTotal, nextTotal))
    IN [entry EXCEPT !.metrics = m3]

setWeightOn(entry, weight) == [entry EXCEPT !.weight = weight]

setTestPassedOn(entry, passed) == [entry EXCEPT !.passed = passed]

setTestContextOn(entry, context) ==
    [entry EXCEPT !.input = context.input, !.output = context.output,
                  !.expected = context.expected]

addScorerResultOn(entry, result) ==
    [entry EXCEPT !.scorerResults = Append(@, result)]

\* the contexts a synchronous Collector call can be made from: outside every
\* runTest body, or inside the body of a runTest call that is still running
CallerContexts == {Outside} \cup {t \in Tasks : body[t] = "running"}

otherVars == <<timeoutVars, baselineVars, compareVars, aggregateVars>>

Called(op, ctx, args, ret) == [op |-> op, ctx |-> ctx, args |-> args, ret |-> ret]

\* a recording call: resolve the entry, return early (after the warning) when
\* there is none, otherwise mutate it in place
Recording(ctx, op, args, updated(_)) ==
    /\ nCalls.recordings < MaxRecordings
    /\ LET entry == currentEntry(ctx)
       IN /\ heap' = IF entry = NoEntry THEN heap
                     ELSE [heap EXCEPT ![entry] = updated(@)]
          /\ lastCall' = Called(op, ctx, args, IF entry = NoEntry THEN "warned" ELSE "done")
          /\ tokenLog' = IF entry # NoEntry /\ op = "recordTokens"
                         THEN [tokenLog EXCEPT ![entry] = Append(@, args)]
                         ELSE tokenLog
    /\ nCalls' = [nCalls EXCEPT !.recordings = @ + 1]
    /\ UNCHANGED <<suiteConfigs, suiteNames, evalFiles, testResults, registrations,
                   legacyCurrentEntry, currentEntryStorage, body, promise, otherVars>>

recordMetric(ctx, name, value) ==
    Recording(ctx, "recordMetric", <<name, value>>,
              LAMBDA e : recordMetricOn(e, name, value))

recordScore(ctx, name, value) ==
    Recording(ctx, "recordScore", <<name, value>>,
              LAMBDA e : recordScoreOn(e, name, value))

recordTokens(ctx, usage) ==
    Recording(ctx, "recordTokens", usage, LAMBDA e : recordTokensOn(e, usage))

setWeight(ctx, weight) ==
    Recording(ctx, "setWeight", weight, LAMBDA e : setWeightOn(e, weight))

setTestPassed(ctx, passed) ==
    Recording(ctx, "setTestPassed", passed, LAMBDA e : setTestPassedOn(e, passed))

setTestContext(ctx, context) ==
    Recording(ctx, "setTestContext", context, LAMBDA e : setTestContextOn(e, context))

addScorerResult(ctx, result) ==
    Recording(ctx, "addScorerResult", result, LAMBDA e : addScorerResultOn(e, result))

registerSuite(suiteName, config, evalFilePath) ==
    /\ nCalls.registrations < MaxRegistrations
    /\ LET suiteKey == createSuiteKey(suiteName, evalFilePath)
       IN /\ suiteConfigs' = MapSet(suiteConfigs, suiteKey, config)
          /\ suiteNames' = MapSet(suiteNames, suiteKey, suiteName)
          /\ evalFiles' = IF Truthy(evalFilePath)
                          THEN MapSet(evalFiles, suiteKey, evalFilePath)
                          ELSE evalFiles
          /\ lastCall' = Called("registerSuite", Outside, <<suiteName, config, evalFilePath>>, suiteKey)
          /\ registrations' = Append(registrations,
                 [suiteName |-> suiteName, evalFilePath |-> evalFilePath, suiteKey |-> suiteKey])
    /\ nCalls' = [nCalls EXCEPT !.registrations = @ + 1]
    /\ UNCHANGED <<tokenLog, testResults, heap, legacyCurrentEntry, currentEntryStorage,
                   body, promise, otherVars>>

configureSuite(name, config) ==
    /\ nCalls.registrations < MaxRegistrations
    /\ suiteConfigs' = MapSet(suiteConfigs, name, config)
    /\ suiteNames' = MapSet(suiteNames, name, name)
    /\ lastCall' = Called("configureSuite", Outside, <<name, config>>, "done")
    /\ nCalls' = [nCalls EXCEPT !.registrations = @ + 1]
    /\ UNCHANGED <<evalFiles, testResults, heap, legacyCurrentEntry, tokenLog,
                   registrations, currentEntryStorage, body, promise, otherVars>>

setEvalFile(suiteKey, filePath) ==
    /\ nCalls.registrations < MaxRegistrations
    /\ evalFiles' = MapSet(evalFiles, suiteKey, filePath)
    /\ lastCall' = Called("setEvalFile", Outside, <<suiteKey, filePath>>, "done")
    /\ nCalls' = [nCalls EXCEPT !.registrations = @ + 1]
    /\ UNCHANGED <<suiteConfigs, suiteNames, testResults, heap, legacyCurrentEntry,
                   tokenLog, registrations, currentEntryStorage, body, promise, otherVars>>

\* the suite keys callers pass to beginTest / runTest: a registered key, or a bare name
SuiteKeyArgs == (DOMAIN suiteConfigs) \cup {S_s}
DisplayName(suiteKey) ==
    IF suiteKey \in DOMAIN suiteNames THEN suiteNames[suiteKey] ELSE suiteKey

beginTest(suiteKeyOrName, suiteNameOrTestName, maybeTestName) ==
    /\ Len(heap) < MaxEntries
    /\ LET suiteKey == suiteKeyOrName
           suiteName == IF Truthy(maybeTestName) THEN suiteNameOrTestName ELSE suiteKeyOrName
           testName == IF maybeTestName \in {Undefined, Null}
                       THEN suiteNameOrTestName ELSE maybeTestName
           entry == createTestEntry(suiteKey, suiteName, testName)
       IN /\ heap' = Append(heap, entry)
          /\ testResults' = Push(testResults, Len(heap) + 1)
          /\ legacyCurrentEntry' = Len(heap) + 1
          /\ lastCall' = Called("beginTest", Outside,
                                <<suiteKeyOrName, suiteNameOrTestName, maybeTestName>>, "done")
    /\ tokenLog' = Append(tokenLog, <<>>)
    /\ UNCHANGED <<suiteConfigs, suiteNames, evalFiles, currentEntryStorage,
                   registrations, body, promise, nCalls, otherVars>>

\* a slip: endTest also unbinds the records of the running bodies
endTestClearsStore ==
    /\ legacyCurrentEntry # NoEntry
    /\ legacyCurrentEntry' = NoEntry
    /\ currentEntryStorage' = [t \in Tasks |-> NoEntry]
    /\ lastCall' = Called("endTest", Outside, <<>>, "done")
    /\ UNCHANGED <<suiteConfigs, suiteNames, evalFiles, testResults, heap, tokenLog,
                   registrations, body, promise, nCalls, otherVars>>

endTest ==
    /\ legacyCurrentEntry # NoEntry
    /\ legacyCurrentEntry' = NoEntry
    /\ lastCall' = Called("endTest", Outside, <<>>, "done")
    /\ UNCHANGED <<suiteConfigs, suiteNames, evalFiles, testResults, heap, tokenLog,
                   registrations, currentEntryStorage, body, promise, nCalls, otherVars>>

\* runTest up to the first suspension of fn: create the entry, push it, run fn
\* with the entry as the store of its asynchronous context
runTest(t, suiteKey, suiteName, testName) ==
    /\ promise[t] = <<"idle">>
    /\ \A u \in Tasks : u < t => promise[u] # <<"idle">>
    /\ Len(heap) < MaxEntries
    /\ LET entry == createTestEntry(suiteKey, suiteName, testName)
       IN /\ heap' = Append(heap, entry)
          /\ testResults' = Push(testResults, Len(heap) + 1)
          /\ currentEntryStorage' = [currentEntryStorage EXCEPT ![t] = Len(heap) + 1]
    /\ body' = [body EXCEPT ![t] = "running"]
    /\ promise' = [promise EXCEPT ![t] = <<"pending">>]
    /\ lastCall' = Called("runTest", t, <<suiteKey, suiteName, testName>>, "pending")
    /\ tokenLog' = Append(tokenLog, <<>>)
    /\ UNCHANGED <<suiteConfigs, suiteNames, evalFiles, legacyCurrentEntry,
                   registrations, nCalls, otherVars>>

\* fn() resolves
BodyReturns(t, value) ==
    /\ body[t] = "running"
    /\ body' = [body EXCEPT ![t] = <<"returned", value>>]
    /\ lastCall' = Called("fnReturned", t, value, "done")
    /\ UNCHANGED <<suiteConfigs, suiteNames, evalFiles, testResults, heap, tokenLog,
                   registrations, legacyCurrentEntry, currentEntryStorage, promise,
                   nCalls, otherVars>>

\* fn() throws / rejects
BodyThrows(t, exception) ==
    /\ body[t] = "running"
    /\ body' = [body EXCEPT ![t] = <<"threw", exception>>]
    /\ lastCall' = Called("fnThrew", t, exception, "done")
    /\ UNCHANGED <<suiteConfigs, suiteNames, evalFiles, testResults, heap, tokenLog,
                   registrations, legacyCurrentEntry, currentEntryStorage, promise,
                   nCalls, otherVars>>

\* `return await this.currentEntryStorage.run(entry, async () => await fn())`:
\* the promise of runTest settles as fn's did
runTestSettled(outcome) ==
    IF outcome[1] = "returned" THEN <<"fulfilled", outcome[2]>>
    ELSE <<"rejected", outcome[2]>>

RunTestSettles(t) ==
    /\ promise[t] = <<"pending">>
    /\ body[t] # "running"
    /\ promise' = [promise EXCEPT ![t] = runTestSettled(body[t])]
    /\ lastCall' = Called("runTestSettled", t, <<>>, "done")
    /\ UNCHANGED <<suiteConfigs, suiteNames, evalFiles, testResults, heap, tokenLog,
                   registrations, legacyCurrentEntry, currentEntryStorage, body,
                   nCalls, otherVars>>

reset ==
    /\ nCalls.resets < MaxResets
    /\ suiteConfigs' = EmptyMap
    /\ suiteNames' = EmptyMap
    /\ testResults' = <<>>
    /\ evalFiles' = EmptyMap
    /\ legacyCurrentEntry' = NoEntry
    /\ lastCall' = Called("reset", Outside, <<>>, "done")
    /\ registrations' = <<>>
    /\ nCalls' = [nCalls EXCEPT !.resets = @ + 1]
    /\ UNCHANGED <<heap, tokenLog, currentEntryStorage, body, promise, otherVars>>

InitCollector ==
    /\ suiteConfigs = EmptyMap
    /\ suiteNames = EmptyMap
    /\ evalFiles = EmptyMap
    /\ testResults = <<>>
    /\ heap = <<>>
    /\ legacyCurrentEntry = NoEntry
    /\ currentEntryStorage = [t \in Tasks |-> NoEntry]
    /\ body = [t \in Tasks |-> "idle"]
    /\ promise = [t \in Tasks |-> <<"idle">>]
    /\ lastCall = Called("new", Outside, <<>>, "done")
    /\ nCalls = [recordings |-> 0, registrations |-> 0, resets |-> 0]
    /\ tokenLog = <<>>
    /\ registrations = <<>>
    /\ waiter = <<"pending">>
    /\ abandoned = {}

InitOthers ==
    /\ baselineDoc = Null
    /\ upserted = <<>>
    /\ cmpIn = Null
    /\ cmpOut = Null
    /\ aggIn = Null
    /\ aggOut = Null

Init == InitCollector /\ InitOthers

\* concurrent case bodies and the recording calls made inside and outside them
Next ==
    \/ \E n \in TestNameArgs : beginTest(S_s, S_s, n)
    \/ \E n \in TestNameArgs : beginTest(S_s, n, Undefined)
    \/ endTest
    \/ \E t \in Tasks, n \in TestNameArgs : runTest(t, S_s, S_s, n)
    \/ \E t \in Tasks, v \in ReturnValues : BodyReturns(t, v)
    \/ \E ctx \in CallerContexts, a \in MetricArgs : recordMetric(ctx, a[1], a[2])
    \/ \E ctx \in CallerContexts, a \in ScoreArgs : recordScore(ctx, a[1], a[2])
    \/ \E ctx \in CallerContexts, u \in UsageArgs : recordTokens(ctx, u)
    \/ \E ctx \in CallerContexts, w \in WeightArgs : setWeight(ctx, w)
    \/ \E ctx \in CallerContexts, p \in PassedArgs : setTestPassed(ctx, p)
    \/ \E ctx \in CallerContexts, c \in ContextArgs : setTestContext(ctx, c)
    \/ \E ctx \in CallerContexts, r \in ScorerResultArgs : addScorerResult(ctx, r)

Spec == Init /\ [][Next]_vars

\* the life of a case record: creation, the body's completion or failure, reset
NextLifecycle ==
    \/ \E n \in TestNameArgs : beginTest(S_s, S_s, n)
    \/ endTest
    \/ \E t \in Tasks, n \in TestNameArgs : runTest(t, S_s, S_s, n)
    \/ \E t \in Tasks, v \in ReturnValues : BodyReturns(t, v)
    \/ \E t \in Tasks, e \in Exceptions : BodyThrows(t, e)
    \/ \E t \in Tasks : RunTestSettles(t)
    \/ \E ctx \in CallerContexts, a \in MetricArgs : recordMetric(ctx, a[1], a[2])
    \/ \E ctx \in CallerContexts, p \in PassedArgs : setTestPassed(ctx, p)
    \/ reset

SpecLifecycle == Init /\ [][NextLifecycle]_vars

\* the suite registry: registration, configuration, reset
NextRegistry ==
    \/ \E n \in SuiteNameArgs, c \in ConfigArgs, f \in EvalPathArgs : registerSuite(n, c, f)
    \/ \E n \in ConfigureNameArgs, c \in ConfigArgs : configureSuite(n, c)
    \/ \E k \in DOMAIN suiteConfigs : setEvalFile(k, PathB)
    \/ reset

SpecRegistry == Init /\ [][NextRegistry]_vars

(***************************************************************************)
(* Properties of the Collector.                                            *)
(***************************************************************************)
InResults(ref) == \E i \in 1..Len(testResults) : testResults[i] = ref
Fresh(ref) == heap[ref] = createTestEntry(heap[ref].suiteKey, heap[ref].suiteName,
                                          heap[ref].testName)

\* C1: a recording call made inside the body of one runTest call modifies only
\* the record created for that call, and creates no record: the records of the
\* bodies running at the same time (and every other record) are left as they
\* were, under every interleaving and whichever body completes first.
C1_BodyCallsStayInOwnRecord ==
    [][\A a \in Tasks :
          (lastCall'.op \in RecordingOps /\ lastCall'.ctx = a)
          => /\ Len(heap') = Len(heap)
             /\ \A ref \in 1..Len(heap) :
                   ref # currentEntryStorage[a] => heap'[ref] = heap[ref]
             /\ heap'[currentEntryStorage[a]].testName = heap[currentEntryStorage[a]].testName
             /\ testResults' = testResults]_vars

\* C1 witness: two bodies overlap, both have recorded, one of them has
\* completed first, and the call just made was made inside the other
C1_Witness ==
    \E a, b \in Tasks :
        /\ a # b
        /\ body[a] = "running" /\ body[b] # "running" /\ body[b] # "idle"
        /\ ~Fresh(currentEntryStorage[a]) /\ ~Fresh(currentEntryStorage[b])
        /\ lastCall.op \in RecordingOps /\ lastCall.ctx = a
        /\ legacyCurrentEntry = NoEntry

\* C2 (the claim as stated): when the body of a runTest call throws, the record
\* created for the call is still in getTestResults() with metrics.error = 1 and
\* passed = false, and runTest rejects with the exception the body threw.
C2_ThrownBodyIsRecordedAsFailed ==
    \A t \in Tasks :
        promise[t][1] = "rejected"
        => /\ body[t] = <<"threw", promise[t][2]>>
           /\ nCalls.resets = 0
              => /\ InResults(currentEntryStorage[t])
                 /\ OGet(heap[currentEntryStorage[t]].metrics, S_error) = Num(1)
                 /\ heap[currentEntryStorage[t]].passed = FALSE

\* C7: getTestResults() lists the records in the order in which their runTest /
\* beginTest calls were made (references are numbered in creation order), and a
\* record that stays in the list stays at its position.
C7_ResultsInInitiationOrder ==
    [][/\ \A i, j \in 1..Len(testResults') : i < j => testResults'[i] < testResults'[j]
       /\ \A i \in 1..Len(testResults), j \in 1..Len(testResults') :
             testResults[i] = testResults'[j] => i = j]_vars

\* C7 witness: the second of two cases has completed while the first is still
\* running, and the list still holds the first before the second
C7_Witness ==
    /\ MaxTasks >= 2
    /\ promise[1] = <<"pending">> /\ body[1] = "running"
    /\ promise[2][1] \in {"fulfilled", "rejected"}
    /\ Len(testResults) >= 2
    /\ \E i, j \in 1..Len(testResults) :
          /\ i < j
          /\ testResults[i] = currentEntryStorage[1]
          /\ testResults[j] = currentEntryStorage[2]

\* C9: a recording call made outside every runTest body while no beginTest is
\* pending returns (after the warning) without changing any case record or any
\* suite registry.
C9_NoActiveRecordIsNoOp ==
    [][(lastCall'.op \in RecordingOps /\ lastCall'.ctx = Outside
        /\ legacyCurrentEntry = NoEntry)
       => /\ lastCall'.ret = "warned"
          /\ heap' = heap
          /\ testResults' = testResults
          /\ suiteConfigs' = suiteConfigs
          /\ suiteNames' = suiteNames
          /\ evalFiles' = evalFiles]_vars

\* C9 witness: such a call has just been made while records exist, one of them
\* of a body that is still running
C9_Witness ==
    /\ lastCall.op \in RecordingOps /\ lastCall.ctx = Outside /\ lastCall.ret = "warned"
    /\ testResults # <<>>
    /\ \E t \in Tasks : body[t] = "running"

\* C10: after the recordTokens calls made on one case, tokens.input is the sum
\* of their promptTokens, tokens.output the sum of their completionTokens and
\* tokens.total the sum of totalTokens where given, promptTokens +
\* completionTokens otherwise.
RECURSIVE SumSeq(_)
SumSeq(ints) == IF ints = <<>> THEN 0 ELSE Head(ints) + SumSeq(Tail(ints))

UsageTotal(usage) ==
    IF usage.totalTokens = Undefined
    THEN usage.promptTokens[2] + usage.completionTokens[2]
    ELSE usage.totalTokens[2]

C10_TokensAccumulate ==
    \A ref \in 1..Len(heap) :
        LET calls == tokenLog[ref]
            prompts == [i \in 1..Len(calls) |-> calls[i].promptTokens[2]]
            completions == [i \in 1..Len(calls) |-> calls[i].completionTokens[2]]
            totals == [i \in 1..Len(calls) |-> UsageTotal(calls[i])]
        IN calls # <<>>
           => /\ OGet(heap[ref].metrics, S_tokensInput) = <<"num", SumSeq(prompts), 1>>
              /\ OGet(heap[ref].metrics, S_tokensOutput) = <<"num", SumSeq(completions), 1>>
              /\ OGet(heap[ref].metrics, S_tokensTotal) = <<"num", SumSeq(totals), 1>>

\* C10 witness: two calls on one case, one with and one without totalTokens
C10_Witness ==
    \E ref \in 1..Len(heap) :
        /\ Len(tokenLog[ref]) >= 2
        /\ \E i, j \in 1..Len(tokenLog[ref]) :
              /\ tokenLog[ref][i].totalTokens = Undefined
              /\ tokenLog[ref][j].totalTokens # Undefined

\* the key a registration of (originFile, name) asks for first
BaseKeyOf(evalFilePath, suiteName) ==
    (IF evalFilePath = Undefined THEN UNKNOWN ELSE evalFilePath) \o SEP \o suiteName

Suffixed(baseKey, n) == baseKey \o <<"#">> \o IntToStr(n)

\* C8 (the claim as stated): every key returned by registerSuite differs from
\* the keys returned earlier since the last reset; the first registration of
\* (originFile, name) returns the base key, and a repeated one returns the base
\* key followed by #n, for the smallest n >= 2 whose key was not yet returned.
C8_FirstRegistrationGetsBaseKey ==
    \A i \in 1..Len(registrations) :
        LET r == registrations[i]
            baseKey == BaseKeyOf(r.evalFilePath, r.suiteName)
            earlier == {registrations[j].suiteKey : j \in 1..(i - 1)}
            first == \A j \in 1..(i - 1) :
                        \/ registrations[j].evalFilePath # r.evalFilePath
                        \/ registrations[j].suiteName # r.suiteName
        IN /\ r.suiteKey \notin earlier
           /\ first => r.suiteKey = baseKey
           /\ ~first => \E n \in 2..(i + 1) :
                            /\ r.suiteKey = Suffixed(baseKey, n)
                            /\ \A m \in 2..(n - 1) : Suffixed(baseKey, m) \in earlier

\* C8 (amended): every key returned by registerSuite differs from every key of
\* the registry, hence from the keys returned earlier since the last reset; a
\* registration whose base key is not in the registry returns the base key, any
\* other returns the base key followed by #n for the smallest n >= 2 whose key
\* is not in the registry; what is stored under the other keys is unchanged.
C8_RegisteredKeysAreUnique ==
    [][lastCall'.op = "registerSuite"
       => LET suiteName == lastCall'.args[1]
              config == lastCall'.args[2]
              evalFilePath == lastCall'.args[3]
              suiteKey == lastCall'.ret
              baseKey == BaseKeyOf(evalFilePath, suiteName)
          IN /\ suiteKey \notin DOMAIN suiteConfigs
             /\ \A i \in 1..Len(registrations) : registrations[i].suiteKey # suiteKey
             /\ baseKey \notin DOMAIN suiteConfigs => suiteKey = baseKey
             /\ baseKey \in DOMAIN suiteConfigs
                => \E n \in 2..(Cardinality(DOMAIN suiteConfigs) + 2) :
                      /\ suiteKey = Suffixed(baseKey, n)
                      /\ \A m \in 2..(n - 1) : Suffixed(baseKey, m) \in DOMAIN suiteConfigs
             /\ suiteConfigs'[suiteKey] = config
             /\ suiteNames'[suiteKey] = suiteName
             /\ DOMAIN suiteConfigs' = DOMAIN suiteConfigs \cup {suiteKey}
             /\ DOMAIN suiteNames' = DOMAIN suiteNames \cup {suiteKey}
             /\ DOMAIN evalFiles' \ {suiteKey} = DOMAIN evalFiles
             /\ \A k \in DOMAIN suiteConfigs : suiteConfigs'[k] = suiteConfigs[k]
             /\ \A k \in DOMAIN suiteNames : suiteNames'[k] = suiteNames[k]
             /\ \A k \in DOMAIN evalFiles : evalFiles'[k] = evalFiles[k]]_vars

\* C8 witness: a registration has found its base key and the key with #2 taken
C8_Witness ==
    /\ lastCall.op = "registerSuite"
    /\ lastCall.ret = Suffixed(BaseKeyOf(lastCall.args[3], lastCall.args[1]), 3)
    /\ Len(registrations) >= 3

(***************************************************************************)
(* Baseline store (src/src/baseline.ts).                                   *)
(*                                                                         *)
(* A value read from a baseline document carries its JavaScript type:      *)
(* <<"obj", entries>>, <<"str", chars>>, a number, Null or Undefined.      *)
(* The document itself is the entry list of its top-level object.          *)
(***************************************************************************)
Obj(entries) == <<"obj", entries>>
Str(chars) == <<"str", chars>>
\* value && typeof value === "object"
IsObject(v) == v[1] = "obj"
\* !value
Falsy(v) ==
    \/ v \in {Undefined, Null, NaN, Str(<<>>), <<"bool", FALSE>>}
    \/ IsZero(v)

K_meta == <<"_", "m", "e", "t", "a">>
K_aggregate == <<"_", "a", "g", "g", "r", "e", "g", "a", "t", "e">>
K_suites == <<"_", "s", "u", "i", "t", "e", "s">>
K_updatedAt == <<"u", "p", "d", "a", "t", "e", "d", "A", "t">>
K_evalFile == <<"e", "v", "a", "l", "F", "i", "l", "e">>
S_evalTs == <<".", "e", "v", "a", "l", ".", "t", "s">>
S_evalJs == <<".", "e", "v", "a", "l", ".", "j", "s">>

RESERVED_BASELINE_KEYS == {K_meta, K_aggregate, K_suites}
BASELINE_TEST_KEY_ESCAPE_PREFIX == <<"@">>

\* a slip: a name that already begins with the escape marker is not escaped again
baselineTestEntryKeyReservedOnly(testName) ==
    IF testName \in RESERVED_BASELINE_KEYS
    THEN BASELINE_TEST_KEY_ESCAPE_PREFIX \o testName
    ELSE testName

\* mutant of baselineTestEntryKey: only names beginning with the marker are escaped
baselineTestEntryKeyMarkerOnly(testName) ==
    IF StartsWith(testName, BASELINE_TEST_KEY_ESCAPE_PREFIX)
    THEN BASELINE_TEST_KEY_ESCAPE_PREFIX \o testName
    ELSE testName

baselineTestEntryKey(testName) ==
    IF \/ testName \in RESERVED_BASELINE_KEYS
       \/ StartsWith(testName, BASELINE_TEST_KEY_ESCAPE_PREFIX)
    THEN BASELINE_TEST_KEY_ESCAPE_PREFIX \o testName
    ELSE testName

\* metrics: the entry list of a Record<string, number>
buildMetricRecord(metrics) == Obj(SelectSeq(metrics, LAMBDA e : ~IsNaN(e[2])))

\* the for loop of buildSuiteBaselineData over Object.entries(perTest)
RECURSIVE AddTestEntries(_, _)
AddTestEntries(suiteData, perTest) ==
    IF perTest = <<>> THEN suiteData
    ELSE AddTestEntries(
             OSet(suiteData, baselineTestEntryKey(Head(perTest)[1]),
                  buildMetricRecord(Head(perTest)[2])),
             Tail(perTest))

buildSuiteBaselineData(aggregates, perTest) ==
    Obj(AddTestEntries(<< <<K_aggregate, buildMetricRecord(aggregates)>> >>, perTest))

\* the second for loop of assignLegacySuiteData
RECURSIVE CopyTestEntries(_, _)
CopyTestEntries(target, entries) ==
    IF entries = <<>> THEN target
    ELSE CopyTestEntries(
             IF Head(entries)[1] = K_aggregate THEN target
             ELSE OSet(target, Head(entries)[1], Head(entries)[2]),
             Tail(entries))

\* returns target as the call leaves it
assignLegacySuiteData(target, suiteData) ==
    LET kept == SelectSeq(target, LAMBDA e : e[1] \in RESERVED_BASELINE_KEYS)
        withAggregate == OSet(kept, K_aggregate, OGet(suiteData[2], K_aggregate))
    IN CopyTestEntries(withAggregate, suiteData[2])

\* path.basename
RECURSIVE basename(_)
basename(path) ==
    LET i == IndexOf(path, <<"/">>)
    IN IF i = -1 THEN path ELSE basename(SliceFrom(path, i + 1))

\* now: the value of new Date().toISOString() at the call
createBaseMeta(evalFilePath, now) ==
    Obj(<< <<K_updatedAt, Str(now)>>, <<K_evalFile, Str(basename(evalFilePath))>> >>)

\* the entry list of the BaselineSuites object
normalizeSuitesValue(value) ==
    IF ~IsObject(value) THEN <<>>
    ELSE SelectSeq(value[2], LAMBDA e : IsObject(e[2]) /\ OHas(e[2][2], K_aggregate))

suiteIdFromSuiteKey(suiteKey) ==
    LET delimiterIndex == IndexOf(suiteKey, SEP)
        identity == Slice(suiteKey, 0, delimiterIndex)
        looksLikeIdentity ==
            \/ identity = UNKNOWN
            \/ Includes(identity, <<"/">>)
            \/ Includes(identity, <<"\\">>)
            \/ EndsWith(identity, S_evalTs)
            \/ EndsWith(identity, S_evalJs)
        suiteId == SliceFrom(suiteKey, delimiterIndex + 2)
    IN IF delimiterIndex = -1 THEN suiteKey
       ELSE IF ~looksLikeIdentity THEN suiteKey
       ELSE IF Len(suiteId) > 0 THEN suiteId ELSE suiteKey

\* first loop: already-stable keys
RECURSIVE KeepStable(_, _)
KeepStable(normalized, suites) ==
    IF suites = <<>> THEN normalized
    ELSE KeepStable(
             IF Head(suites)[1] = suiteIdFromSuiteKey(Head(suites)[1])
             THEN OSet(normalized, Head(suites)[1], Head(suites)[2])
             ELSE normalized,
             Tail(suites))

\* second loop: fill the remaining ids from the other keys
RECURSIVE FillLegacy(_, _)
FillLegacy(normalized, suites) ==
    IF suites = <<>> THEN normalized
    ELSE FillLegacy(
             IF ~OHas(normalized, suiteIdFromSuiteKey(Head(suites)[1]))
             THEN OSet(normalized, suiteIdFromSuiteKey(Head(suites)[1]), Head(suites)[2])
             ELSE normalized,
             Tail(suites))

normalizeSuitesByStableId(suites) == FillLegacy(KeepStable(<<>>, suites), suites)

upsertSuiteBaseline(evalFilePath, existing, suiteKey, aggregates, perTest, now) ==
    LET suiteData == buildSuiteBaselineData(aggregates, perTest)
        stableSuiteId == suiteIdFromSuiteKey(suiteKey)
        next == IF existing # Null
                THEN OSet(existing, K_meta, createBaseMeta(evalFilePath, now))
                ELSE << <<K_meta, createBaseMeta(evalFilePath, now)>>,
                        <<K_aggregate, OGet(suiteData[2], K_aggregate)>> >>
        suites == normalizeSuitesByStableId(
                      normalizeSuitesValue(
                          IF existing = Null THEN Undefined ELSE OGet(existing, K_suites)))
        suites2 == OSet(suites, stableSuiteId, suiteData)
        next2 == OSet(next, K_suites, Obj(suites2))
    IN assignLegacySuiteData(next2, suiteData)

\* the legacy single-suite shape read as one suite's data
legacySuiteOf(baseline) ==
    Obj(<< <<K_aggregate, OGet(baseline, K_aggregate)>> >>
        \o SelectSeq(baseline,
                     LAMBDA e : e[1] \notin RESERVED_BASELINE_KEYS /\ IsObject(e[2])))

\* mutant of resolveSuiteBaseline: the exact raw key is tried first
resolveSuiteBaselineRawFirst(baseline, suiteKey) ==
    LET stableSuiteId == suiteIdFromSuiteKey(suiteKey)
        rawSuites == normalizeSuitesValue(OGet(baseline, K_suites))
        byRawKey == OGet(rawSuites, suiteKey)
        suiteData == IF byRawKey \notin {Undefined, Null} THEN byRawKey
                     ELSE OGet(normalizeSuitesByStableId(rawSuites), stableSuiteId)
    IN IF ~Falsy(suiteData) THEN suiteData
       ELSE IF Falsy(OGet(baseline, K_aggregate)) THEN Null
       ELSE legacySuiteOf(baseline)

resolveSuiteBaseline(baseline, suiteKey) ==
    LET stableSuiteId == suiteIdFromSuiteKey(suiteKey)
        rawSuites == normalizeSuitesValue(OGet(baseline, K_suites))
        byStableId == OGet(normalizeSuitesByStableId(rawSuites), stableSuiteId)
        suiteData == IF byStableId \notin {Undefined, Null} THEN byStableId
                     ELSE OGet(rawSuites, suiteKey)
    IN IF ~Falsy(suiteData) THEN suiteData
       ELSE IF Falsy(OGet(baseline, K_aggregate)) THEN Null
       ELSE legacySuiteOf(baseline)

\* comparePerTestMetrics: the stored metrics of a case, looked up by its name
baselineTestOf(suiteData, testName) == OGet(suiteData[2], baselineTestEntryKey(testName))

\* ---- the baseline document of one eval file, updated suite by suite ----
PathOld == <<"/", "o", ".", "e", "v", "a", "l", ".", "t", "s">>
S_t == <<"t">>
S_gs == <<"g", ":", ":", "s">>
S_xys == <<"x", "/", "y", ":", ":", "s">>
S_atMeta == <<"@", "_", "m", "e", "t", "a">>

\* the suites of the eval file: plain names, a name with `::`, a name with a
\* path-like part before `::`
BaselineSuiteNameArgs == {S_s, S_gs, S_xys}
BaselineSuiteKeyArgs == {PathA \o SEP \o n : n \in BaselineSuiteNameArgs}
AggregateArgs ==
    { << <<S_value, Num(1)>> >>,
      << <<S_value, Num(2)>>, <<S_error, NaN>> >> }
PerTestArgs ==
    { <<>>,
      << <<S_a, << <<S_value, Num(1)>> >> >> >>,
      << <<K_meta, << <<S_value, Num(2)>> >> >>,
         <<S_atMeta, << <<S_value, Num(3)>>, <<S_error, NaN>> >> >> >> }

\* what loadBaseline finds before the first update: no file, a file in the
\* single-suite shape, a file whose suites are keyed by an old checkout path
LegacySingleDoc ==
    << <<K_meta, createBaseMeta(PathOld, <<"0">>)>>,
       <<K_aggregate, Obj(<< <<S_value, Num(9)>> >>)>>,
       <<S_b, Obj(<< <<S_value, Num(9)>> >>)>> >>
LegacyPathKeyDoc ==
    << <<K_meta, createBaseMeta(PathOld, <<"0">>)>>,
       <<K_aggregate, Obj(<< <<S_value, Num(8)>> >>)>>,
       <<K_suites, Obj(<< <<PathOld \o SEP \o S_s,
                            Obj(<< <<K_aggregate, Obj(<< <<S_value, Num(8)>> >>)>> >>)>>,
                          <<PathOld \o SEP \o S_t,
                            Obj(<< <<K_aggregate, Obj(<< <<S_value, Num(7)>> >>)>> >>)>> >>)>> >>
InitialDocs == {Null, LegacySingleDoc, LegacyPathKeyDoc}

\* updateBaselineIfRequested: load, upsert, save
UpdateBaseline(suiteKey, aggregates, perTest) ==
    /\ Len(upserted) < MaxUpserts
    /\ baselineDoc' = upsertSuiteBaseline(PathA, baselineDoc, suiteKey, aggregates,
                                          perTest, IntToStr(Len(upserted) + 1))
    /\ upserted' = Append(upserted, [suiteKey |-> suiteKey, aggregates |-> aggregates,
                                     perTest |-> perTest])
    /\ UNCHANGED <<collectorVars, compareVars, aggregateVars>>

InitBaseline ==
    /\ InitCollector
    /\ baselineDoc \in InitialDocs
    /\ upserted = <<>>
    /\ cmpIn = Null /\ cmpOut = Null /\ aggIn = Null /\ aggOut = Null

NextBaseline ==
    \E k \in BaselineSuiteKeyArgs, a \in AggregateArgs, p \in PerTestArgs :
        UpdateBaseline(k, a, p)

SpecBaseline == InitBaseline /\ [][NextBaseline]_vars

\* what a metric record is expected to hold: the given metrics that are not NaN
WithoutNaN(metrics) == Obj(SelectSeq(metrics, LAMBDA e : e[2] # NaN))

\* the last upsert of a suite key
IsLastUpsertOf(i) ==
    \A j \in (i + 1)..Len(upserted) : upserted[j].suiteKey # upserted[i].suiteKey

\* C3 (the claim as stated): after any sequence of upserts on one document,
\* resolveSuiteBaseline returns, for every suite key that was upserted, the
\* _aggregate written by the most recent upsert of that key.
C3_UpsertKeepsOtherSuites ==
    \A i \in 1..Len(upserted) :
        IsLastUpsertOf(i)
        => LET resolved == resolveSuiteBaseline(baselineDoc, upserted[i].suiteKey)
           IN /\ resolved # Null
              /\ OGet(resolved[2], K_aggregate) = WithoutNaN(upserted[i].aggregates)

S_latency == <<"l", "a", "t", "e", "n", "c", "y">>
S_ttfb == <<"t", "t", "f", "b">>
S_tokens == <<"t", "o", "k", "e", "n", "s">>
S_score == <<"s", "c", "o", "r", "e">>
S_throughput == <<"t", "h", "r", "o", "u", "g", "h", "p", "u", "t">>
S_testPassRate == <<"t", "e", "s", "t", ".", "p", "a", "s", "s", "_", "r", "a", "t", "e">>
S_testCount == <<"t", "e", "s", "t", ".", "c", "o", "u", "n", "t">>
HIGHER == <<"h", "i", "g", "h", "e", "r">>
LOWER == <<"l", "o", "w", "e", "r">>
K_value == <<"v", "a", "l", "u", "e">>
K_tolerance == <<"t", "o", "l", "e", "r", "a", "n", "c", "e">>
K_direction == <<"d", "i", "r", "e", "c", "t", "i", "o", "n">>

\* the regular-expression class \w
WordChars ==
    {"a", "b", "c", "d", "e", "f", "g", "h", "i", "j", "k", "l", "m",
     "n", "o", "p", "q", "r", "s", "t", "u", "v", "w", "x", "y", "z",
     "A", "B", "C", "D", "E", "F", "G", "H", "I", "J", "K", "L", "M",
     "N", "O", "P", "Q", "R", "S", "T", "U", "V", "W", "X", "Y", "Z",
     "0", "1", "2", "3", "4", "5", "6", "7", "8", "9", "_"}

\* /^word\b/.test(name), for a word ending in a \w character
MatchesWord(name, word) ==
    /\ StartsWith(name, word)
    /\ (Len(name) = Len(word) \/ name[Len(word) + 1] \notin WordChars)

\* /^ttfb(?:\.|$)/.test(name)
MatchesTtfb(name) ==
    /\ StartsWith(name, S_ttfb)
    /\ (Len(name) = Len(S_ttfb) \/ name[Len(S_ttfb) + 1] = ".")

getDefaultTolerance(metricName) ==
    IF MatchesWord(metricName, S_latency) \/ MatchesTtfb(metricName) THEN Rat(1, 5)
    ELSE IF MatchesWord(metricName, S_tokens) THEN Rat(1, 10)
    ELSE IF MatchesWord(metricName, S_score) THEN Rat(1, 20)
    ELSE IF MatchesWord(metricName, S_throughput) THEN Rat(3, 20)
    ELSE IF MatchesWord(metricName, S_error) THEN Num(0)
    ELSE IF metricName = S_testPassRate THEN Rat(1, 20)
    ELSE IF metricName = S_testCount THEN Num(0)
    ELSE Rat(1, 10)

getMetricDirection(metricName) ==
    IF MatchesWord(metricName, S_score) THEN HIGHER
    ELSE IF MatchesWord(metricName, S_throughput) THEN HIGHER
    ELSE IF metricName = S_testPassRate THEN HIGHER
    ELSE LOWER

normalizeMetricBaseline(metricName, baselineEntry) ==
    IF IsNumber(baselineEntry)
    THEN [value |-> baselineEntry,
          tolerance |-> getDefaultTolerance(metricName),
          direction |-> getMetricDirection(metricName)]
    ELSE [value |-> OGet(baselineEntry[2], K_value),
          tolerance |-> OGet(baselineEntry[2], K_tolerance),
          direction |-> IF OGet(baselineEntry[2], K_direction) \in {Undefined, Null}
                        THEN getMetricDirection(metricName)
                        ELSE OGet(baselineEntry[2], K_direction)[2]]

\* a slip: a value exactly on the tolerance limit counts as a regression
hasRegressionInclusive(currentValue, baselineValue, tolerance, direction) ==
    IF direction = LOWER
    THEN ~JsLt(currentValue, JsMul(baselineValue, JsAdd(Num(1), tolerance)))
    ELSE ~JsGt(currentValue, JsMul(baselineValue, JsSub(Num(1), tolerance)))

hasRegression(currentValue, baselineValue, tolerance, direction) ==
    IF direction = LOWER
    THEN JsGt(currentValue, JsMul(baselineValue, JsAdd(Num(1), tolerance)))
    ELSE JsLt(currentValue, JsMul(baselineValue, JsSub(Num(1), tolerance)))

\* the body of the for loop of compareMetrics for one baseline entry
compareOne(results, current, metric, baselineEntry) ==
    IF ~OHas(current, metric) THEN results
    ELSE IF baselineEntry \in {Null, Undefined} THEN results
    ELSE IF OGet(current, metric) = Undefined THEN results
    ELSE LET currentValue == OGet(current, metric)
             normalized == normalizeMetricBaseline(metric, baselineEntry)
             change == IF normalized.value = Num(0) THEN Num(0)
                       ELSE JsDiv(JsSub(currentValue, normalized.value), normalized.value)
             regressed == hasRegression(currentValue, normalized.value,
                                        normalized.tolerance, normalized.direction)
         IN Append(results,
                   [metric |-> metric, current |-> currentValue,
                    baseline |-> normalized.value, tolerance |-> normalized.tolerance,
                    change |-> change, regressed |-> regressed,
                    direction |-> normalized.direction])

RECURSIVE compareLoop(_, _, _)
compareLoop(results, current, baseline) ==
    IF baseline = <<>> THEN results
    ELSE compareLoop(compareOne(results, current, Head(baseline)[1], Head(baseline)[2]),
                     current, Tail(baseline))

\* current: the entry list of a Record<string, number>; baseline: the entry
\* list of a record of a stored suite
compareMetrics(current, baseline) == compareLoop(<<>>, current, baseline)

\* ---- compareMetrics applied to bounded inputs ----
S_latencyAvg == <<"l", "a", "t", "e", "n", "c", "y", ".", "a", "v", "g">>
S_scoreEAvg == <<"s", "c", "o", "r", "e", ".", "e", ".", "a", "v", "g">>
CompareMetricNames == <<S_latencyAvg, S_scoreEAvg>>
Absent == <<"absent">>
CurrentValueArgs == {Absent, Num(0), Num(90), Num(115), Num(120), Num(130)}
BaselineMetricOf(value, tolerance, direction) ==
    Obj(<< <<K_value, value>>, <<K_tolerance, tolerance>> >>
        \o IF direction = Undefined THEN <<>> ELSE << <<K_direction, Str(direction)>> >>)
\* a bare number, an explicit record, or the null that JSON.stringify writes
\* for a non-finite number
BaselineEntryArgs ==
    {Absent, Null, Num(0), Num(100), Num(-100),
     BaselineMetricOf(Num(100), Rat(1, 2), Undefined),
     BaselineMetricOf(Num(100), Rat(1, 10), HIGHER),
     BaselineMetricOf(Num(100), Rat(3, 10), LOWER)}
\* the object with the given values under CompareMetricNames, in that order
RecordOf(v1, v2) ==
    (IF v1 = Absent THEN <<>> ELSE << <<CompareMetricNames[1], v1>> >>)
    \o (IF v2 = Absent THEN <<>> ELSE << <<CompareMetricNames[2], v2>> >>)

\* the value a call has returned; Null while it has not been made
Returned(value) == <<"returned", value>>

Compare ==
    /\ cmpOut = Null
    /\ cmpOut' = Returned(compareMetrics(cmpIn.current, cmpIn.baseline))
    /\ UNCHANGED <<collectorVars, baselineVars, cmpIn, aggregateVars>>

InitCompare ==
    /\ InitCollector
    /\ baselineDoc = Null /\ upserted = <<>>
    /\ \E c1 \in CurrentValueArgs, c2 \in CurrentValueArgs,
          b1 \in BaselineEntryArgs, b2 \in BaselineEntryArgs :
            cmpIn = [current |-> RecordOf(c1, c2), baseline |-> RecordOf(b1, b2)]
    /\ cmpOut = Null
    /\ aggIn = Null /\ aggOut = Null

NextCompare == Compare

SpecCompare == InitCompare /\ [][NextCompare]_vars

\* the comparison records of a metric
RecordsOf(metric) == {i \in 1..Len(cmpOut[2]) : cmpOut[2][i].metric = metric}

\* what the claim says a record holds, in integer arithmetic on the fractions
\* c = cn/cd, b = bn/bd, t = tn/td
ExpectedTolerance(metric, entry) ==
    IF IsNumber(entry) THEN getDefaultTolerance(metric) ELSE OGet(entry[2], K_tolerance)
ExpectedDirection(metric, entry) ==
    IF IsNumber(entry) \/ ~OHas(entry[2], K_direction) THEN getMetricDirection(metric)
    ELSE OGet(entry[2], K_direction)[2]
ExpectedBaseline(entry) == IF IsNumber(entry) THEN entry ELSE OGet(entry[2], K_value)
ExpectedChange(c, b) ==
    IF b[2] = 0 THEN Num(0) ELSE Rat(c[2] * b[3] - b[2] * c[3], c[3] * b[2])
ExpectedRegressed(c, b, t, direction) ==
    IF direction = LOWER
    THEN c[2] * b[3] * t[3] > b[2] * (t[3] + t[2]) * c[3]
    ELSE c[2] * b[3] * t[3] < b[2] * (t[3] - t[2]) * c[3]

RecordAsClaimed(r, metric) ==
    LET entry == OGet(cmpIn.baseline, metric)
        c == OGet(cmpIn.current, metric)
        b == ExpectedBaseline(entry)
        t == ExpectedTolerance(metric, entry)
        d == ExpectedDirection(metric, entry)
    IN /\ r.current = c /\ r.baseline = b /\ r.tolerance = t /\ r.direction = d
       /\ r.change = ExpectedChange(c, b)
       /\ r.regressed = ExpectedRegressed(c, b, t, d)

\* C5 (the claim as stated): compareMetrics returns exactly one record for
\* each metric present in both maps and none for any other metric, and each
\* record holds the claimed change, regressed flag, tolerance and direction.
C5_OneRecordPerSharedMetric ==
    cmpOut # Null
    => \A i \in 1..Len(CompareMetricNames) :
          LET metric == CompareMetricNames[i]
          IN IF OHas(cmpIn.current, metric) /\ OHas(cmpIn.baseline, metric)
             THEN /\ Cardinality(RecordsOf(metric)) = 1
                  /\ \A j \in RecordsOf(metric) : RecordAsClaimed(cmpOut[2][j], metric)
             ELSE RecordsOf(metric) = {}

\* C5 (amended): exactly one record for each metric present in both maps
\* whose baseline entry is not null, none for any other metric; each record
\* holds change = (current - baseline) / baseline (0 when baseline is 0) and
\* regressed = current > baseline * (1 + tolerance) for lower-is-better,
\* current < baseline * (1 - tolerance) for higher-is-better, with the default
\* tolerance and direction of the name for a bare number and the record's own
\* tolerance and (if given) direction for an explicit record.
C5_OneRecordPerSharedNonNullMetric ==
    cmpOut # Null
    => \A i \in 1..Len(CompareMetricNames) :
          LET metric == CompareMetricNames[i]
          IN IF /\ OHas(cmpIn.current, metric)
                /\ OHas(cmpIn.baseline, metric)
                /\ OGet(cmpIn.baseline, metric) # Null
             THEN /\ Cardinality(RecordsOf(metric)) = 1
                  /\ \A j \in RecordsOf(metric) : RecordAsClaimed(cmpOut[2][j], metric)
             ELSE RecordsOf(metric) = {}

\* C5 witness: a comparison with a null baseline entry for a current metric
\* and a regression decided by an explicit record's own direction
C5_Witness ==
    /\ cmpOut # Null
    /\ OHas(cmpIn.current, S_scoreEAvg)
    /\ OGet(cmpIn.baseline, S_scoreEAvg) = Null
    /\ OGet(cmpIn.baseline, S_latencyAvg) = BaselineMetricOf(Num(100), Rat(1, 10), HIGHER)
    /\ Len(cmpOut[2]) = 1
    /\ cmpOut[2][1].regressed

(***************************************************************************)
(* Aggregator (src/src/run.ts).                                            *)
(***************************************************************************)
Bool(b) == <<"bool", b>>
S_tokensDot == <<"t", "o", "k", "e", "n", "s", ".">>
OP_sum == <<"s", "u", "m">>
OP_avg == <<"a", "v", "g">>
OP_min == <<"m", "i", "n">>
OP_count == <<"c", "o", "u", "n", "t">>
OP_rate == <<"r", "a", "t", "e">>
DefaultPassThreshold == Rat(1, 2)

\* mutant of classifyMetric: every family is recognised by its prefix alone
classifyMetricByPrefix(name) ==
    IF StartsWith(name, S_latency) \/ StartsWith(name, S_ttfb) THEN "latency"
    ELSE IF StartsWith(name, S_throughput) THEN "throughput"
    ELSE IF StartsWith(name, S_tokensDot) THEN "tokens"
    ELSE IF StartsWith(name, S_scoreDot) THEN "score"
    ELSE IF StartsWith(name, S_error) THEN "error"
    ELSE "unknown"

classifyMetric(name) ==
    IF name = S_latency \/ StartsWith(name, S_ttfb) THEN "latency"
    ELSE IF StartsWith(name, S_throughput) THEN "throughput"
    ELSE IF StartsWith(name, S_tokensDot) THEN "tokens"
    ELSE IF StartsWith(name, S_scoreDot) THEN "score"
    ELSE IF name = S_error THEN "error"
    ELSE "unknown"

\* entries: a sequence of [value, weight]
RECURSIVE WeightedSums(_, _, _)
WeightedSums(entries, sumWeighted, sumWeights) ==
    IF entries = <<>> THEN <<sumWeighted, sumWeights>>
    ELSE WeightedSums(Tail(entries),
                      JsAdd(sumWeighted, JsMul(Head(entries).value, Head(entries).weight)),
                      JsAdd(sumWeights, Head(entries).weight))

weightedAvg(entries) ==
    LET sums == WeightedSums(entries, Num(0), Num(0))
    IN IF sums[2] = Num(0) THEN Num(0) ELSE JsDiv(sums[1], sums[2])

RECURSIVE SumFrom(_, _)
SumFrom(entries, total) ==
    IF entries = <<>> THEN total
    ELSE SumFrom(Tail(entries), JsAdd(total, Head(entries).value))

sum(entries) == SumFrom(entries, Num(0))

RECURSIVE MinFrom(_, _)
MinFrom(entries, result) ==
    IF entries = <<>> THEN result
    ELSE MinFrom(Tail(entries),
                 IF JsLt(Head(entries).value, result) THEN Head(entries).value ELSE result)

\* mutant of min: the value of the first entry
minOfFirst(entries) == IF entries = <<>> THEN Inf(1) ELSE entries[1].value

min(entries) == MinFrom(entries, Inf(1))

weightedRate(entries) == weightedAvg(entries)

\* the Set of metric names, in insertion order
RECURSIVE AddNames(_, _)
AddNames(names, metrics) ==
    IF metrics = <<>> THEN names
    ELSE AddNames(
             IF IsNumber(Head(metrics)[2]) /\ \A i \in 1..Len(names) : names[i] # Head(metrics)[1]
             THEN Append(names, Head(metrics)[1])
             ELSE names,
             Tail(metrics))

RECURSIVE CollectNames(_, _)
CollectNames(names, tests) ==
    IF tests = <<>> THEN names
    ELSE CollectNames(AddNames(names, Head(tests).metrics), Tail(tests))

collectNumericMetricNames(tests) == CollectNames(<<>>, tests)

\* a slip: a case lacking the metric is counted as a zero
entriesForMetricZeroFilled(tests, metricName) ==
    [i \in 1..Len(tests) |->
        [value |-> IF IsNumber(OGet(tests[i].metrics, metricName))
                   THEN OGet(tests[i].metrics, metricName) ELSE Num(0),
         weight |-> tests[i].weight]]

entriesForMetric(tests, metricName) ==
    LET with == SelectSeq(tests, LAMBDA t : IsNumber(OGet(t.metrics, metricName)))
    IN [i \in 1..Len(with) |-> [value |-> OGet(with[i].metrics, metricName),
                                weight |-> with[i].weight]]

aggregationsForKind(kind) ==
    CASE kind = "latency" -> <<OP_sum, OP_avg>>
      [] kind = "throughput" -> <<OP_avg>>
      [] kind = "tokens" -> <<OP_sum>>
      [] kind = "score" -> <<OP_avg, OP_min>>
      [] kind = "error" -> <<OP_count, OP_rate>>
      [] OTHER -> <<>>

computeAgg(op, entries) ==
    CASE op = OP_sum -> sum(entries)
      [] op = OP_avg -> weightedAvg(entries)
      [] op = OP_min -> min(entries)
      [] op = OP_count -> sum(entries)
      [] op = OP_rate -> weightedRate(entries)

\* String.prototype.lastIndexOf for a one-character pattern
LastIndexOf(s, c) ==
    LET hits == {i \in 0..(Len(s) - 1) : s[i + 1] = c}
    IN IF hits = {} THEN -1 ELSE CHOOSE i \in hits : \A j \in hits : i >= j

\* name.split(".").slice(0, -1).join("."): the name up to its last "."
metricKeyForCustomAggregation(name) ==
    IF Includes(name, <<".">>) THEN Slice(name, 0, LastIndexOf(name, ".")) ELSE name

\* the for loop over a case's metrics in buildPassEntries: TRUE unless a
\* numeric score.* metric is below the threshold
RECURSIVE ScoresPass(_, _)
ScoresPass(metrics, passThreshold) ==
    IF metrics = <<>> THEN TRUE
    ELSE IF ~StartsWith(Head(metrics)[1], S_scoreDot) \/ ~IsNumber(Head(metrics)[2])
         THEN ScoresPass(Tail(metrics), passThreshold)
    ELSE IF JsLt(Head(metrics)[2], passThreshold) THEN FALSE
    ELSE ScoresPass(Tail(metrics), passThreshold)

\* the callback of tests.map in buildPassEntries
passEntry(test, passThreshold) ==
    IF ~test.passed THEN [value |-> Num(0), weight |-> test.weight]
    ELSE LET hasScoreMetric ==
                 \E i \in 1..Len(test.metrics) :
                     /\ StartsWith(test.metrics[i][1], S_scoreDot)
                     /\ IsNumber(test.metrics[i][2])
             passed == ScoresPass(test.metrics, passThreshold)
         IN [value |-> IF (IF hasScoreMetric THEN passed ELSE test.passed)
                       THEN Num(1) ELSE Num(0),
             weight |-> test.weight]

buildPassEntries(tests, passThreshold) ==
    [i \in 1..Len(tests) |-> passEntry(tests[i], passThreshold)]

\* a slip: the error metric is treated like every other metric
EntriesOfStep2Uniform(tests, metric) == entriesForMetric(tests, metric)

\* the entries of one metric in step 2 of aggregateMetrics
EntriesOfStep2(tests, metric) ==
    IF metric = S_error
    THEN [i \in 1..Len(tests) |->
             [value |-> IF IsNumber(OGet(tests[i].metrics, S_error))
                        THEN OGet(tests[i].metrics, S_error) ELSE Num(0),
              weight |-> tests[i].weight]]
    ELSE entriesForMetric(tests, metric)

\* a slip: the result key is built as `${op}.${metric}`
RECURSIVE AddOpsReversed(_, _, _, _)
AddOpsReversed(result, metric, ops, entries) ==
    IF ops = <<>> THEN result
    ELSE AddOpsReversed(
             OSet(result, Head(ops) \o <<".">> \o metric, computeAgg(Head(ops), entries)),
             metric, Tail(ops), entries)

RECURSIVE AddOps(_, _, _, _)
AddOps(result, metric, ops, entries) ==
    IF ops = <<>> THEN result
    ELSE AddOps(OSet(result, metric \o <<".">> \o Head(ops), computeAgg(Head(ops), entries)),
                metric, Tail(ops), entries)

RECURSIVE AddMetrics(_, _, _)
AddMetrics(result, metricNames, tests) ==
    IF metricNames = <<>> THEN result
    ELSE LET metric == Head(metricNames)
             ops == aggregationsForKind(classifyMetric(metric))
             entries == EntriesOfStep2(tests, metric)
         IN AddMetrics(
                IF Len(ops) = 0 \/ Len(entries) = 0 THEN result
                ELSE AddOps(result, metric, ops, entries),
                Tail(metricNames), tests)

\* a custom aggregation function of a suite config, by name:
\* (entries) => entries.length, the total of the values, entries[0]?.value ?? 0
ApplyAggregation(fn, entries) ==
    CASE fn = "length" -> Num(Len(entries))
      [] fn = "total" -> sum(entries)
      [] fn = "first" -> IF entries = <<>> THEN Num(0) ELSE entries[1].value

RECURSIVE AddCustom(_, _, _)
AddCustom(result, aggregations, tests) ==
    IF aggregations = <<>> THEN result
    ELSE AddCustom(
             OSet(result, Head(aggregations)[1],
                  ApplyAggregation(Head(aggregations)[2],
                      entriesForMetric(tests,
                          metricKeyForCustomAggregation(Head(aggregations)[1])))),
             Tail(aggregations), tests)

K_passThreshold == <<"p", "a", "s", "s", "T", "h", "r", "e", "s", "h", "o", "l", "d">>
K_aggregations == <<"a", "g", "g", "r", "e", "g", "a", "t", "i", "o", "n", "s">>

\* suiteConfig: Undefined or the SuiteConfig object
aggregateMetrics(tests, suiteConfig) ==
    IF Len(tests) = 0
    THEN << <<S_testCount, Num(0)>>, <<S_testPassRate, Num(0)>> >>
    ELSE LET step2 == AddMetrics(<<>>, collectNumericMetricNames(tests), tests)
             step3a == OSet(step2, S_testCount, Num(Len(tests)))
             configured == IF suiteConfig = Undefined THEN Undefined
                           ELSE OGet(suiteConfig[2], K_passThreshold)
             passThreshold == IF configured \in {Undefined, Null}
                              THEN DefaultPassThreshold ELSE configured
             passEntries == buildPassEntries(tests, passThreshold)
             step3b == OSet(step3a, S_testPassRate, weightedRate(passEntries))
             aggregations == IF suiteConfig = Undefined THEN Undefined
                             ELSE OGet(suiteConfig[2], K_aggregations)
         IN IF IsObject(aggregations)
            THEN AddCustom(step3b, aggregations[2], tests)
            ELSE step3b

\* ---- aggregateMetrics applied to bounded inputs ----
S_scoreMain == <<"s", "c", "o", "r", "e", ".", "m", "a", "i", "n">>
S_scoreAux == <<"s", "c", "o", "r", "e", ".", "a", "u", "x">>
S_valueTotal == <<"v", ".", "t", "o", "t", "a", "l">>
S_ttfbFirst == <<"t", "t", "f", "b", ".", "f", "i", "r", "s", "t">>
MaxTests == 2
CaseMetricsArgs ==
    { <<>>,
      << <<S_scoreMain, Num(1)>> >>,
      << <<S_scoreMain, Rat(3, 10)>> >>,
      << <<S_scoreMain, Rat(1, 2)>> >>,
      << <<S_scoreMain, NaN>> >>,
      << <<S_scoreMain, Num(1)>>, <<S_scoreAux, Rat(3, 10)>> >>,
      << <<S_scoreMain, Bool(TRUE)>>, <<S_value, Num(3)>> >>,
      << <<S_latency, Num(5)>>, <<S_error, Num(1)>> >>,
      << <<S_ttfbFirst, Num(2)>>, <<S_throughput, Num(3)>>, <<S_tokensInput, Num(4)>> >>,
      << <<S_latency, Inf(1)>>, <<S_error, Num(0)>> >>,
      << <<S_scoreMain, Inf(-1)>> >> }
CaseWeightArgs == {Num(1), Num(2)}
CaseArgs ==
    { [createTestEntry(UNKNOWN \o SEP \o S_s, S_s, S_a)
          EXCEPT !.metrics = m, !.weight = w, !.passed = p] :
      m \in CaseMetricsArgs, w \in CaseWeightArgs, p \in BOOLEAN }
SuiteConfigArgs ==
    { Undefined,
      Obj(<< <<K_aggregations, Obj(<< <<S_valueTotal, "total">> >>)>> >>),
      Obj(<< <<K_passThreshold, Rat(9, 10)>> >>) }
RECURSIVE SeqsUpTo(_, _)
SeqsUpTo(S, n) ==
    IF n = 0 THEN {<<>>}
    ELSE LET shorter == SeqsUpTo(S, n - 1)
         IN shorter \cup {Append(q, x) : q \in shorter, x \in S}

Aggregate ==
    /\ aggOut = Null
    /\ aggOut' = Returned(aggregateMetrics(aggIn.tests, aggIn.suiteConfig))
    /\ UNCHANGED <<collectorVars, baselineVars, compareVars, aggIn>>

InitAggregate ==
    /\ InitCollector
    /\ baselineDoc = Null /\ upserted = <<>>
    /\ cmpIn = Null /\ cmpOut = Null
    /\ \E tests \in SeqsUpTo(CaseArgs, MaxTests), c \in SuiteConfigArgs :
          aggIn = [tests |-> tests, suiteConfig |-> c]
    /\ aggOut = Null

NextAggregate == Aggregate

SpecAggregate == InitAggregate /\ [][NextAggregate]_vars

\* the pass judgment of the claim: 1 iff the passed flag is true and every
\* numeric score.* metric of the case is >= the threshold
JudgedPass(test, threshold) ==
    /\ test.passed
    /\ \A i \in 1..Len(test.metrics) :
          LET v == test.metrics[i][2]
          IN (StartsWith(test.metrics[i][1], S_scoreDot) /\ IsNumber(v))
             => \/ v = Inf(1)
                \/ /\ v[1] = "num"
                   /\ v[2] * threshold[3] >= threshold[2] * v[3]
ClaimedThreshold ==
    IF aggIn.suiteConfig = Undefined \/ ~OHas(aggIn.suiteConfig[2], K_passThreshold)
    THEN Rat(1, 2) ELSE OGet(aggIn.suiteConfig[2], K_passThreshold)
\* the weights (integers here) of the cases judged passing, and of all cases
PassingWeight ==
    SumSeq([i \in 1..Len(aggIn.tests) |->
               IF JudgedPass(aggIn.tests[i], ClaimedThreshold)
               THEN aggIn.tests[i].weight[2] ELSE 0])
TotalWeight == SumSeq([i \in 1..Len(aggIn.tests) |-> aggIn.tests[i].weight[2]])

\* C6 (the claim as stated): test.pass_rate is the weighted average over all
\* cases of a 0/1 judgment that is 1 iff the case's passed flag is true and
\* every numeric score.* metric it has is >= the pass threshold (default 0.5).
C6_PassRateIsWeightedPassJudgment ==
    (aggOut # Null /\ Len(aggIn.tests) > 0)
    => OGet(aggOut[2], S_testPassRate) = Rat(PassingWeight, TotalWeight)

(***************************************************************************)
(* Collector queries (src/unnamed/part_001).                               *)
(***************************************************************************)
\* [...new Set(keys)]: the distinct elements, in order of first occurrence
RECURSIVE SetOrder(_, _)
SetOrder(seen, keys) ==
    IF keys = <<>> THEN seen
    ELSE SetOrder(IF \E i \in 1..Len(seen) : seen[i] = Head(keys)
                  THEN seen ELSE Append(seen, Head(keys)),
                  Tail(keys))

\* this.testResults.map((test) => test.suiteKey)
ResultSuiteKeys == [i \in 1..Len(testResults) |-> heap[testResults[i]].suiteKey]

\* a slip: the keys are returned without removing the repetitions
getSuiteKeysRepeated == ResultSuiteKeys

getSuiteKeys == SetOrder(<<>>, ResultSuiteKeys)

\* suites are registered, then their cases start in any order
NextSuites ==
    \/ \E n \in SuiteNameArgs : registerSuite(n, [passThreshold |-> Rat(1, 10)], PathA)
    \/ \E k \in DOMAIN suiteConfigs, n \in TestNameArgs : beginTest(k, suiteNames[k], n)
    \/ \E t \in Tasks, k \in DOMAIN suiteConfigs, n \in TestNameArgs :
          runTest(t, k, suiteNames[k], n)
    \/ \E t \in Tasks, v \in ReturnValues : BodyReturns(t, v)

SpecSuites == Init /\ [][NextSuites]_vars

\* the position of the first registration that returned the key (0: none)
RegisteredAt(key) ==
    LET at == {i \in 1..Len(registrations) : registrations[i].suiteKey = key}
    IN IF at = {} THEN 0 ELSE CHOOSE i \in at : \A j \in at : i <= j
\* the position in the result list of the first case of the suite
FirstCaseAt(key) ==
    CHOOSE i \in 1..Len(testResults) :
        /\ heap[testResults[i]].suiteKey = key
        /\ \A j \in 1..(i - 1) : heap[testResults[j]].suiteKey # key

\* C11 (the claim as stated): getSuiteKeys() returns the distinct suite keys
\* in the order in which the suites were first registered, whatever the order
\* in which their cases started.
C11_SuiteKeysInRegistrationOrder ==
    \A i \in 1..Len(getSuiteKeys) : \A j \in (i + 1)..Len(getSuiteKeys) :
        RegisteredAt(getSuiteKeys[i]) < RegisteredAt(getSuiteKeys[j])

\* C11 (amended): getSuiteKeys() returns the suite keys of the case records
\* of the result list, each exactly once, in the order in which the first
\* case of each suite was started; registration order plays no part.
C11_SuiteKeysInFirstCaseOrder ==
    /\ \A r \in 1..Len(testResults) :
          \E i \in 1..Len(getSuiteKeys) : getSuiteKeys[i] = heap[testResults[r]].suiteKey
    /\ \A i \in 1..Len(getSuiteKeys) :
          /\ \E r \in 1..Len(testResults) : heap[testResults[r]].suiteKey = getSuiteKeys[i]
          /\ \A j \in (i + 1)..Len(getSuiteKeys) :
                /\ getSuiteKeys[i] # getSuiteKeys[j]
                /\ FirstCaseAt(getSuiteKeys[i]) < FirstCaseAt(getSuiteKeys[j])

\* C11 witness: two registered suites whose cases started in the order
\* opposite to their registration
C11_Witness ==
    /\ Len(getSuiteKeys) = 2
    /\ RegisteredAt(getSuiteKeys[2]) > 0
    /\ RegisteredAt(getSuiteKeys[1]) > RegisteredAt(getSuiteKeys[2])

(***************************************************************************)
(* Cases run under an external timeout (src/unnamed/part_003).             *)
(***************************************************************************)
\* Promise.all over the runTest promises started so far: pending while one of
\* them is pending, rejected as the first rejected one, fulfilled otherwise
allCases ==
    IF \E t \in Tasks : promise[t][1] = "rejected"
    THEN LET t == CHOOSE t \in Tasks : promise[t][1] = "rejected" IN promise[t]
    ELSE IF \E t \in Tasks : promise[t] = <<"pending">> THEN <<"pending">>
    ELSE <<"fulfilled", "all">>

\* withTimeout: the timer fires first and rejects the waiter; the cases that
\* were waited for are left as they are
TimerFires ==
    /\ waiter = <<"pending">>
    /\ \E t \in Tasks : promise[t] = <<"pending">>
    /\ waiter' = <<"rejected", "timeout">>
    /\ abandoned' = {t \in Tasks : promise[t] = <<"pending">>}
    /\ lastCall' = Called("timerFired", Outside, <<>>, "done")
    /\ UNCHANGED <<suiteConfigs, suiteNames, evalFiles, testResults, heap, tokenLog,
                   registrations, legacyCurrentEntry, currentEntryStorage, body,
                   promise, nCalls, baselineVars, compareVars, aggregateVars>>

\* withTimeout: the promise settles first; the timer is cleared
WaiterSettles ==
    /\ waiter = <<"pending">>
    /\ \E t \in Tasks : promise[t] # <<"idle">>
    /\ allCases # <<"pending">>
    /\ waiter' = allCases
    /\ lastCall' = Called("waiterSettled", Outside, <<>>, "done")
    /\ UNCHANGED <<suiteConfigs, suiteNames, evalFiles, testResults, heap, tokenLog,
                   registrations, legacyCurrentEntry, currentEntryStorage, body,
                   promise, nCalls, abandoned, baselineVars, compareVars, aggregateVars>>

NextTimeout ==
    \/ \E t \in Tasks, n \in TestNameArgs : runTest(t, S_s, S_s, n)
    \/ \E t \in Tasks, v \in ReturnValues : BodyReturns(t, v)
    \/ \E t \in Tasks, e \in Exceptions : BodyThrows(t, e)
    \/ \E t \in Tasks : RunTestSettles(t)
    \/ TimerFires
    \/ WaiterSettles
    \/ \E n \in TestNameArgs : beginTest(S_s, S_s, n)
    \/ \E ctx \in CallerContexts, a \in MetricArgs : recordMetric(ctx, a[1], a[2])

SpecTimeout == Init /\ [][NextTimeout]_vars

\* C12: after the timeout has rejected the waiter while runTest calls were
\* still pending, the record of an abandoned call is the active record of no
\* other context, and it is modified by no step other than a recording call
\* made inside the abandoned body itself.
C12_AbandonedBindingDoesNotLeak ==
    [][\A t \in abandoned :
          /\ \A ctx \in ({Outside} \cup Tasks) \ {t} :
                currentEntry(ctx) # currentEntryStorage[t]
          /\ heap'[currentEntryStorage[t]] # heap[currentEntryStorage[t]]
             => (lastCall'.op \in RecordingOps /\ lastCall'.ctx = t)]_vars

\* C12 witness: a call was abandoned with its body still suspended, and a
\* recording call made elsewhere afterwards did record, on another record
C12_Witness ==
    \E t \in abandoned :
        /\ waiter = <<"rejected", "timeout">>
        /\ body[t] = "running"
        /\ Fresh(currentEntryStorage[t])
        /\ lastCall.op \in RecordingOps /\ lastCall.ctx # t /\ lastCall.ret = "done"

(***************************************************************************)
(* Properties of the Aggregator.                                           *)
(***************************************************************************)
NamesOf(tests) ==
    UNION {{tests[i].metrics[j][1] : j \in 1..Len(tests[i].metrics)} : i \in 1..Len(tests)}
HasNumeric(test, name) ==
    \E j \in 1..Len(test.metrics) : test.metrics[j][1] = name /\ IsNumber(test.metrics[j][2])
\* the classified metric names with a numeric value on some case
ClassifiedNames ==
    {n \in NamesOf(aggIn.tests) :
        /\ classifyMetric(n) # "unknown"
        /\ \E i \in 1..Len(aggIn.tests) : HasNumeric(aggIn.tests[i], n)}

\* one (value, weight) entry per case that has the metric, none for the others
RECURSIVE EntriesOfCasesWith(_, _)
EntriesOfCasesWith(tests, name) ==
    IF tests = <<>> THEN <<>>
    ELSE (IF HasNumeric(Head(tests), name)
          THEN <<[value |-> OGet(Head(tests).metrics, name), weight |-> Head(tests).weight]>>
          ELSE <<>>)
         \o EntriesOfCasesWith(Tail(tests), name)

\* one entry per case, a case lacking the metric counted as zero
EntriesOfAllCases(tests, name) ==
    [i \in 1..Len(tests) |->
        [value |-> IF HasNumeric(tests[i], name) THEN OGet(tests[i].metrics, name) ELSE Num(0),
         weight |-> tests[i].weight]]

\* the statistics of a metric in the result are those of the given entries
StatisticsAreOf(name, entries) ==
    LET ops == aggregationsForKind(classifyMetric(name))
    IN \A k \in 1..Len(ops) :
          OGet(aggOut[2], name \o <<".">> \o ops[k]) = computeAgg(ops[k], entries)

\* C13 (the claim as stated): for every classified metric name, error
\* included, the entries aggregateMetrics uses hold exactly one entry per case
\* that has the metric, with that case's weight, and none for a case lacking it.
C13_EntriesOnlyOfCasesWithMetric ==
    aggOut # Null
    => \A name \in ClassifiedNames :
          /\ EntriesOfStep2(aggIn.tests, name) = EntriesOfCasesWith(aggIn.tests, name)
          /\ StatisticsAreOf(name, EntriesOfCasesWith(aggIn.tests, name))

\* C13 (amended): for every classified metric name other than `error` the
\* entries hold exactly one entry per case that has the metric, with that
\* case's weight, and none for a case lacking it; for `error` they hold one
\* entry per case of the suite, with value 0 for a case that has no error metric.
C13_EntriesOfCasesWithMetricExceptError ==
    aggOut # Null
    => \A name \in ClassifiedNames :
          LET expected == IF name = S_error
                          THEN EntriesOfAllCases(aggIn.tests, name)
                          ELSE EntriesOfCasesWith(aggIn.tests, name)
          IN /\ EntriesOfStep2(aggIn.tests, name) = expected
             /\ StatisticsAreOf(name, expected)

\* C13 witness: aggregated cases of which one has latency and error and
\* another has neither, with different weights
C13_Witness ==
    /\ aggOut # Null
    /\ Len(aggIn.tests) = 2
    /\ HasNumeric(aggIn.tests[1], S_latency) /\ HasNumeric(aggIn.tests[1], S_error)
    /\ ~HasNumeric(aggIn.tests[2], S_latency) /\ ~HasNumeric(aggIn.tests[2], S_error)
    /\ HasNumeric(aggIn.tests[2], S_scoreMain)
    /\ aggIn.tests[1].weight # aggIn.tests[2].weight

\* the error value of a case as an integer fraction <<n, d>> (0 when it has none)
ErrorOf(test) ==
    IF HasNumeric(test, S_error)
    THEN <<OGet(test.metrics, S_error)[2], OGet(test.metrics, S_error)[3]>>
    ELSE <<0, 1>>

\* C14: when some case has a numeric error metric, error.count is the sum of
\* the error metric over the cases and error.rate is the weighted average of
\* the error value over all cases of the suite (a case without the metric
\* counting 0); with unit weights, errored cases / all cases.
C14_ErrorCountAndRateOverAllCases ==
    (aggOut # Null /\ \E i \in 1..Len(aggIn.tests) : HasNumeric(aggIn.tests[i], S_error))
    => LET tests == aggIn.tests
           \* error values and weights are integers here
           count == SumSeq([i \in 1..Len(tests) |-> ErrorOf(tests[i])[1]])
           weighted == SumSeq([i \in 1..Len(tests) |->
                                  ErrorOf(tests[i])[1] * tests[i].weight[2]])
           weights == SumSeq([i \in 1..Len(tests) |-> tests[i].weight[2]])
       IN /\ OGet(aggOut[2], S_error \o <<".">> \o OP_count) = Num(count)
          /\ OGet(aggOut[2], S_error \o <<".">> \o OP_rate) = Rat(weighted, weights)

\* C14 witness: two cases of different weights, one errored and one without
\* an error metric
C14_Witness ==
    /\ aggOut # Null
    /\ Len(aggIn.tests) = 2
    /\ OGet(aggIn.tests[1].metrics, S_error) = Num(1)
    /\ ~HasNumeric(aggIn.tests[2], S_error)
    /\ aggIn.tests[1].weight = Num(1) /\ aggIn.tests[2].weight = Num(2)
    /\ OGet(aggOut[2], S_error \o <<".">> \o OP_rate) = Rat(1, 3)

\* the built-in aggregate values of the result
BuiltInValues ==
    {aggOut[2][k][2] : k \in {k \in 1..Len(aggOut[2]) : aggOut[2][k][1] # S_valueTotal}}

\* C15 (the claim as stated): a metric value that is not finite is excluded
\* from the entries, so no built-in aggregate value of the result is NaN or
\* infinite.
C15_NoNonFiniteAggregate ==
    aggOut # Null
    => /\ \A name \in ClassifiedNames :
             \A k \in 1..Len(EntriesOfStep2(aggIn.tests, name)) :
                 IsFinite(EntriesOfStep2(aggIn.tests, name)[k].value)
       /\ \A v \in BuiltInValues : IsFinite(v)

(***************************************************************************)
(* The suite report: aggregate, then compare with the stored aggregate     *)
(* (src/src/preload.ts, prepareSuiteReport).                               *)
(***************************************************************************)
S_scoreMainAvg == S_scoreMain \o <<".">> \o OP_avg
S_scoreMainFirst == S_scoreMain \o <<".", "f", "i", "r", "s", "t">>
S_errors == <<"e", "r", "r", "o", "r", "s">>
S_latencyP95 == <<"l", "a", "t", "e", "n", "c", "y", ".", "p", "9", "5">>
S_throughputOut == <<"t", "h", "r", "o", "u", "g", "h", "p", "u", "t", "_", "o", "u", "t">>
ReportCaseMetricsArgs ==
    { << <<S_scoreMain, Num(1)>> >>,
      << <<S_scoreMain, Rat(3, 10)>>, <<S_latency, Num(7)>> >>,
      << <<S_latency, Num(5)>>, <<S_error, Num(1)>> >>,
      << <<S_value, Num(3)>>, <<S_scoreMain, Bool(TRUE)>> >>,
      << <<S_ttfbFirst, Num(2)>>, <<S_throughput, Num(3)>>, <<S_tokensInput, Num(4)>> >>,
      << <<S_ttfb, Num(2)>>, <<S_throughputOut, Num(3)>>, <<S_tokens, Num(4)>>,
         <<S_score, Num(1)>>, <<S_errors, Num(1)>>, <<S_latencyP95, Num(9)>> >> }
ReportCaseArgs ==
    { [createTestEntry(UNKNOWN \o SEP \o S_s, S_s, S_a) EXCEPT !.metrics = m, !.weight = w] :
      m \in ReportCaseMetricsArgs, w \in CaseWeightArgs }
ReportConfigArgs ==
    SuiteConfigArgs
    \cup {Obj(<< <<K_aggregations, Obj(<< <<S_scoreMainFirst, "first">> >>)>> >>)}
\* the _aggregate record of the resolved suite baseline
ReportBaselineArgs ==
    { << <<S_latencyAvg, Num(4)>>, <<S_testCount, Num(1)>>, <<S_valueTotal, Num(1)>>,
         <<S_value, Num(1)>> >>,
      << <<S_scoreMainAvg, BaselineMetricOf(Num(2), Rat(1, 10), HIGHER)>> >> }

\* compareMetrics(aggregates, suiteBaseline._aggregate)
CompareWithBaseline(baselineAggregate) ==
    /\ aggOut # Null
    /\ cmpOut = Null
    /\ cmpIn' = [current |-> aggOut[2], baseline |-> baselineAggregate]
    /\ cmpOut' = Returned(compareMetrics(aggOut[2], baselineAggregate))
    /\ UNCHANGED <<collectorVars, baselineVars, aggregateVars>>

InitReport ==
    /\ InitCollector
    /\ baselineDoc = Null /\ upserted = <<>>
    /\ cmpIn = Null /\ cmpOut = Null
    /\ \E tests \in SeqsUpTo(ReportCaseArgs, MaxTests) \ {<<>>}, c \in ReportConfigArgs :
          aggIn = [tests |-> tests, suiteConfig |-> c]
    /\ aggOut = Null

NextReport ==
    \/ Aggregate
    \/ \E b \in ReportBaselineArgs : CompareWithBaseline(b)

SpecReport == InitReport /\ [][NextReport]_vars

StatisticSuffixes == {OP_avg, OP_sum, OP_min, OP_count, OP_rate}
\* test.count, test.pass_rate, or a metric name of some case plus a suffix
InVocabulary(key) ==
    \/ key \in {S_testCount, S_testPassRate}
    \/ \E name \in NamesOf(aggIn.tests), suffix \in StatisticSuffixes :
          key = name \o <<".">> \o suffix
\* the registered names of the custom aggregations of the suite config
CustomNames ==
    IF aggIn.suiteConfig = Undefined \/ ~OHas(aggIn.suiteConfig[2], K_aggregations)
    THEN {}
    ELSE LET a == OGet(aggIn.suiteConfig[2], K_aggregations)[2]
         IN {a[i][1] : i \in 1..Len(a)}

\* C16 (the claim as stated): custom aggregations included, every key of the
\* aggregate record is test.count, test.pass_rate or a case metric name
\* followed by .avg, .sum, .min, .count or .rate, and so is the metric name
\* of every comparison record produced from it.
C16_KeysInVocabulary ==
    /\ aggOut # Null => \A k \in 1..Len(aggOut[2]) : InVocabulary(aggOut[2][k][1])
    /\ cmpOut # Null => \A k \in 1..Len(cmpOut[2]) : InVocabulary(cmpOut[2][k].metric)

\* C16 (amended): every key of the aggregate record is test.count,
\* test.pass_rate, a case metric name followed by .avg, .sum, .min, .count or
\* .rate, or the registered name of a custom aggregation of the suite config
\* (stored verbatim); the metric name of every comparison record produced
\* from the record is one of its keys.
C16_KeysInVocabularyOrCustom ==
    /\ aggOut # Null
       => \A k \in 1..Len(aggOut[2]) :
             InVocabulary(aggOut[2][k][1]) \/ aggOut[2][k][1] \in CustomNames
    /\ cmpOut # Null
       => \A k \in 1..Len(cmpOut[2]) :
             /\ OHas(aggOut[2], cmpOut[2][k].metric)
             /\ InVocabulary(cmpOut[2][k].metric) \/ cmpOut[2][k].metric \in CustomNames

\* C16 witness: the comparison of an aggregate record holds a record for a
\* built-in statistic and one for a custom aggregation
C16_Witness ==
    /\ cmpOut # Null
    /\ \E k \in 1..Len(cmpOut[2]) : cmpOut[2][k].metric = S_latencyAvg
    /\ \E k \in 1..Len(cmpOut[2]) : cmpOut[2][k].metric = S_valueTotal

\* the lists holding the same case records in another order
Reorderings(tests) ==
    LET n == Len(tests)
        orders == {f \in [1..n -> 1..n] : \A i, j \in 1..n : f[i] = f[j] => i = j}
    IN {[i \in 1..n |-> tests[f[i]]] : f \in orders}
\* the same keys with the same values, whatever the order of the keys
SameRecord(a, b) ==
    /\ {a[i][1] : i \in 1..Len(a)} = {b[i][1] : i \in 1..Len(b)}
    /\ \A i \in 1..Len(a) : OGet(b, a[i][1]) = a[i][2]
\* the same, but for the keys in `except`
SameRecordBut(a, b, except) ==
    /\ {a[i][1] : i \in 1..Len(a)} = {b[i][1] : i \in 1..Len(b)}
    /\ \A i \in 1..Len(a) : a[i][1] \notin except => OGet(b, a[i][1]) = a[i][2]
\* the custom aggregations whose function depends on the order of its entries
OrderDependentNames ==
    IF aggIn.suiteConfig = Undefined \/ ~OHas(aggIn.suiteConfig[2], K_aggregations)
    THEN {}
    ELSE LET a == OGet(aggIn.suiteConfig[2], K_aggregations)[2]
         IN {a[i][1] : i \in {i \in 1..Len(a) : a[i][2] = "first"}}

NumericNames ==
    {n \in NamesOf(aggIn.tests) : \E i \in 1..Len(aggIn.tests) : HasNumeric(aggIn.tests[i], n)}
\* the statistic suffixes under which the result has a key for a metric name
EmittedSuffixes(name) ==
    {suffix \in StatisticSuffixes : OHas(aggOut[2], name \o <<".">> \o suffix)}
\* the suffixes of the family of a name, as the claim lists them
ClaimedSuffixes(name) ==
    IF name = S_latency \/ StartsWith(name, S_ttfb) THEN {OP_sum, OP_avg}
    ELSE IF StartsWith(name, S_throughput) THEN {OP_avg}
    ELSE IF StartsWith(name, S_tokensDot) THEN {OP_sum}
    ELSE IF StartsWith(name, S_scoreDot) THEN {OP_avg, OP_min}
    ELSE IF name = S_error THEN {OP_count, OP_rate}
    ELSE {}

\* C18: for each numeric metric name present on at least one case, the result
\* has exactly the statistic keys of the name's family: .sum and .avg for
\* `latency` and ttfb*, .avg for throughput*, .sum for tokens.*, .avg and .min
\* for score.*, .count and .rate for `error`, none for any other name.
C18_KeysOfFamilyOnly ==
    aggOut # Null
    => \A name \in NumericNames : EmittedSuffixes(name) = ClaimedSuffixes(name)

\* C18 witness: cases with names of several families and with names that only
\* resemble a family (`tokens`, `score`, `errors`, `latency.p95`) were aggregated
C18_Witness ==
    /\ aggOut # Null
    /\ {S_latency, S_error, S_ttfb, S_throughputOut, S_tokens, S_score, S_errors,
        S_latencyP95} \subseteq NumericNames
    /\ OHas(aggOut[2], S_ttfb \o <<".">> \o OP_sum)
    /\ OHas(aggOut[2], S_error \o <<".">> \o OP_rate)
    /\ ~OHas(aggOut[2], S_latencyP95 \o <<".">> \o OP_avg)

(***************************************************************************)
(* Stable suite ids (src/src/baseline.ts, suiteIdFromSuiteKey): the suites *)
(* of one eval file whose names hold `::`, and keys with the other         *)
(* identity shapes, upserted into one baseline document.                   *)
(***************************************************************************)
S_gt == <<"g", ":", ":", "t">>
S_xyt == <<"x", "/", "y", ":", ":", "t">>
PathWin == <<"C", ":", "\\", "e">>
PathJs == <<"e", ".", "e", "v", "a", "l", ".", "j", "s">>
SuiteIdNameArgs == {S_gs, S_gt, S_xys, S_xyt}
SuiteIdKeyArgs ==
    {PathA \o SEP \o n : n \in SuiteIdNameArgs}
    \cup {UNKNOWN \o SEP \o S_gs, PathWin \o SEP \o S_s, PathJs \o SEP \o S_gt, S_gs, S_t}

NextSuiteIds ==
    \E k \in SuiteIdKeyArgs, a \in AggregateArgs : UpdateBaseline(k, a, <<>>)

SpecSuiteIds == InitBaseline /\ [][NextSuiteIds]_vars

\* the stable id of a suite key as the claim words it
ClaimedStableId(key) ==
    LET at == IndexOf(key, SEP)
        before == SubSeq(key, 1, at)
        after == SubSeq(key, at + 3, Len(key))
    IN IF at = -1 THEN key
       ELSE IF \/ before = UNKNOWN
               \/ \E i \in 1..Len(before) : before[i] \in {"/", "\\"}
               \/ EndsWith(before, S_evalTs) \/ EndsWith(before, S_evalJs)
            THEN after
            ELSE key
\* the name of the suite of a key of the eval file PathA
NameOfKey(key) == SubSeq(key, Len(PathA) + 3, Len(key))
\* two names that are equal up to their first `::` and differ after it
DifferOnlyAfterSep(n, m) ==
    /\ n # m
    /\ IndexOf(n, SEP) # -1
    /\ IndexOf(n, SEP) = IndexOf(m, SEP)
    /\ SubSeq(n, 1, IndexOf(n, SEP)) = SubSeq(m, 1, IndexOf(m, SEP))
StoredSuites == normalizeSuitesValue(OGet(baselineDoc, K_suites))

\* C19: the suite just upserted is stored under the part of its key after the
\* first `::` when the part before is `<unknown>`, holds a path separator or
\* ends in .eval.ts / .eval.js, and under the whole key otherwise; and two
\* suites of one file whose names differ only after a `::` have different
\* stable ids and each resolves to the data of its own last upsert.
C19_StableIdsKeepSuitesApart ==
    /\ upserted # <<>>
       => LET last == upserted[Len(upserted)]
          IN /\ OHas(StoredSuites, ClaimedStableId(last.suiteKey))
             /\ OGet(OGet(StoredSuites, ClaimedStableId(last.suiteKey))[2], K_aggregate)
                   = WithoutNaN(last.aggregates)
    /\ \A i, j \in 1..Len(upserted) :
          /\ IsLastUpsertOf(i) /\ IsLastUpsertOf(j)
          /\ StartsWith(upserted[i].suiteKey, PathA \o SEP)
          /\ StartsWith(upserted[j].suiteKey, PathA \o SEP)
          /\ DifferOnlyAfterSep(NameOfKey(upserted[i].suiteKey), NameOfKey(upserted[j].suiteKey))
          => /\ suiteIdFromSuiteKey(upserted[i].suiteKey) # suiteIdFromSuiteKey(upserted[j].suiteKey)
             /\ resolveSuiteBaseline(baselineDoc, upserted[i].suiteKey) # Null
             /\ OGet(resolveSuiteBaseline(baselineDoc, upserted[i].suiteKey)[2], K_aggregate)
                   = WithoutNaN(upserted[i].aggregates)

(***************************************************************************)
(* Resolving a suite in a stored baseline document (src/src/baseline.ts,   *)
(* resolveSuiteBaseline), as prepareSuiteReport does after loadBaseline.   *)
(***************************************************************************)
MaxStored == 3
S_u == <<"u">>
SuiteDataOf(n) == Obj(<< <<K_aggregate, Obj(<< <<S_value, Num(n)>> >>)>> >>)
\* stored suite entries: under a stable id, under keys of an old checkout
\* path, under the key of the present path
StoredEntryArgs ==
    { <<S_s, SuiteDataOf(1)>>,
      <<PathOld \o SEP \o S_s, SuiteDataOf(2)>>,
      <<PathA \o SEP \o S_s, SuiteDataOf(3)>>,
      <<PathOld \o SEP \o S_t, SuiteDataOf(4)>> }
StoredSuitesArgs ==
    {e \in SeqsUpTo(StoredEntryArgs, MaxStored) :
        \A i, j \in 1..Len(e) : e[i][1] = e[j][1] => i = j}
StoredDocArgs ==
    { << <<K_meta, createBaseMeta(PathOld, <<"0">>)>> >> \o top
         \o << <<K_suites, Obj(e)>> >> :
      top \in {<<>>, << <<K_aggregate, Obj(<< <<S_value, Num(9)>> >>)>> >>},
      e \in StoredSuitesArgs }
ResolveKeyArgs == {PathA \o SEP \o S_s, PathA \o SEP \o S_t, PathA \o SEP \o S_u}

\* prepareSuiteReport: resolveSuiteBaseline(baseline, suiteKey)
Resolve(suiteKey) ==
    /\ lastCall' = [op |-> "resolveSuiteBaseline", ctx |-> 0, args |-> <<suiteKey>>,
                    ret |-> Returned(resolveSuiteBaseline(baselineDoc, suiteKey))]
    /\ UNCHANGED <<suiteConfigs, suiteNames, evalFiles, testResults, heap,
                   legacyCurrentEntry, currentEntryStorage, body, promise, nCalls,
                   tokenLog, registrations, otherVars>>

InitResolve ==
    /\ InitCollector
    /\ baselineDoc \in StoredDocArgs
    /\ upserted = <<>>
    /\ cmpIn = Null /\ cmpOut = Null /\ aggIn = Null /\ aggOut = Null

NextResolve == \E k \in ResolveKeyArgs : Resolve(k)

SpecResolve == InitResolve /\ [][NextResolve]_vars

\* the stored entries of a stable id: those stored under the id itself, and
\* those stored under a path-qualified key of that id, in document order
StoredUnderId(id) == SelectSeq(StoredSuites, LAMBDA e : e[1] = id /\ ClaimedStableId(e[1]) = id)
StoredUnderLegacyKeyOf(id) ==
    SelectSeq(StoredSuites, LAMBDA e : e[1] # ClaimedStableId(e[1]) /\ ClaimedStableId(e[1]) = id)
StoredUnderRawKey(key) == SelectSeq(StoredSuites, LAMBDA e : e[1] = key)
\* the lookup in the order the claim gives
ClaimedResolution(key) ==
    LET id == ClaimedStableId(key)
    IN IF StoredUnderId(id) # <<>> THEN StoredUnderId(id)[1][2]
       ELSE IF StoredUnderLegacyKeyOf(id) # <<>> THEN StoredUnderLegacyKeyOf(id)[1][2]
       ELSE IF StoredUnderRawKey(key) # <<>> THEN StoredUnderRawKey(key)[1][2]
       ELSE IF OHas(baselineDoc, K_aggregate)
            THEN Obj(<< <<K_aggregate, OGet(baselineDoc, K_aggregate)>> >>)
            ELSE Null

\* C20: resolveSuiteBaseline returns the entry stored under the stable id of
\* the query, else the first entry stored under a path-qualified key with
\* that stable id, else the entry under the exact raw key, else the legacy
\* top-level shape (null without a top-level _aggregate); so a document
\* holding only `<oldPath>::<name>` resolves `<newPath>::<name>` to that entry.
C20_ResolveByStableIdFirst ==
    lastCall.op = "resolveSuiteBaseline"
    => /\ lastCall.ret = Returned(ClaimedResolution(lastCall.args[1]))
       /\ (/\ Len(StoredSuites) = 1
           /\ StoredSuites[1][1] = PathOld \o SEP \o S_s
           /\ lastCall.args[1] = PathA \o SEP \o S_s)
          => lastCall.ret = Returned(StoredSuites[1][2])

\* C20 witness: a document holding the suite under a stable id after a legacy
\* key and the present raw key was resolved to the entry under the stable id
C20_Witness ==
    /\ lastCall.op = "resolveSuiteBaseline"
    /\ lastCall.args[1] = PathA \o SEP \o S_s
    /\ Len(StoredSuites) = 3
    /\ StoredSuites[1][1] = PathOld \o SEP \o S_s
    /\ StoredSuites[2][1] = PathA \o SEP \o S_s
    /\ StoredSuites[3][1] = S_s
    /\ lastCall.ret = Returned(SuiteDataOf(1))

(***************************************************************************)
(* Case names that look like document keys (src/src/baseline.ts,           *)
(* baselineTestEntryKey): suites whose cases are named like reserved keys  *)
(* or begin with the escape marker, upserted and resolved.                 *)
(***************************************************************************)
S_atA == <<"@", "a">>
S_atAtMeta == <<"@", "@", "_", "m", "e", "t", "a">>
MetricsOf(n) == << <<S_value, Num(n)>> >>
EscapePerTestArgs ==
    { <<>>,
      << <<K_meta, MetricsOf(1)>>, <<K_aggregate, MetricsOf(2)>>, <<K_suites, MetricsOf(3)>> >>,
      << <<S_atMeta, MetricsOf(4)>>, <<K_meta, MetricsOf(5)>>, <<S_atAtMeta, MetricsOf(6)>> >>,
      << <<S_a, MetricsOf(1)>>, <<S_atA, MetricsOf(2)>> >>,
      << <<K_aggregate, MetricsOf(7)>> >> }
EscapeSuiteKeyArgs == {PathA \o SEP \o S_s, PathA \o SEP \o S_t}

NextEscape ==
    \E k \in EscapeSuiteKeyArgs, p \in EscapePerTestArgs : UpdateBaseline(k, MetricsOf(8), p)

SpecEscape == InitBaseline /\ [][NextEscape]_vars

\* the key a case is stored under, as the claim words it
ClaimedEntryKey(testName) ==
    IF testName \in {K_meta, K_aggregate, K_suites} \/ (testName # <<>> /\ testName[1] = "@")
    THEN <<"@">> \o testName
    ELSE testName
\* what the reader of a resolved entry finds for a case name
\* (comparePerTestMetrics: baseline[baselineTestEntryKey(testName)])
ReadBack(resolved, testName) == baselineTestOf(resolved, testName)

C22_NormalizationIsIdempotent ==
    baselineDoc # Null =>
    /\ SameRecord(normalizeSuitesByStableId(normalizeSuitesByStableId(StoredSuites)),
                  normalizeSuitesByStableId(StoredSuites))
    /\ upserted # <<>> => SameRecord(normalizeSuitesByStableId(StoredSuites), StoredSuites)

(***************************************************************************)
(* Defaults of a bare-number baseline entry (src/src/baseline.ts,          *)
(* getDefaultTolerance and getMetricDirection), seen in the records of      *)
(* compareMetrics for aggregate keys and raw per-case metric names.         *)
(***************************************************************************)
S_latencyP95Name == <<"l", "a", "t", "e", "n", "c", "y", "_", "p", "9", "5">>
S_ttfbAvg == <<"t", "t", "f", "b", ".", "a", "v", "g">>
S_ttfbFirstAvg == <<"t", "t", "f", "b", "_", "f", "i", "r", "s", "t", ".", "a", "v", "g">>
S_tokensInputSum == <<"t", "o", "k", "e", "n", "s", ".", "i", "n", "p", "u", "t", ".", "s", "u", "m">>
S_throughputAvg == <<"t", "h", "r", "o", "u", "g", "h", "p", "u", "t", ".", "a", "v", "g">>
S_throughputOutAvg == <<"t", "h", "r", "o", "u", "g", "h", "p", "u", "t", "_", "o", "u", "t", ".", "a", "v", "g">>
S_errorRate == <<"e", "r", "r", "o", "r", ".", "r", "a", "t", "e">>
DefaultNameArgs ==
    {S_latency, S_latencyAvg, S_latencyP95Name, S_ttfb, S_ttfbAvg, S_ttfbFirstAvg,
     S_tokensInputSum, S_scoreEAvg, S_score, S_throughputAvg, S_throughputOutAvg,
     S_error, S_errorRate, S_errors, S_testPassRate, S_testCount, S_valueTotal}
DefaultCurrentArgs == {Num(90), Num(100), Num(130)}
DefaultBaselineArgs == {Num(0), Num(100)}

InitDefaults ==
    /\ InitCollector
    /\ baselineDoc = Null /\ upserted = <<>>
    /\ \E name \in DefaultNameArgs, c \in DefaultCurrentArgs, b \in DefaultBaselineArgs :
          cmpIn = [current |-> << <<name, c>> >>, baseline |-> << <<name, b>> >>]
    /\ cmpOut = Null
    /\ aggIn = Null /\ aggOut = Null

NextDefaults == Compare

SpecDefaults == InitDefaults /\ [][NextDefaults]_vars

\* the default direction of a name, as the claim words it
ClaimedDirection(name) ==
    IF \/ StartsWith(name, S_scoreDot)
       \/ StartsWith(name, S_throughput)
       \/ name = S_testPassRate
    THEN HIGHER
    ELSE LOWER

\* C23: the record compareMetrics builds for a bare-number baseline entry has
\* the direction higher-is-better exactly when the metric name starts with
\* `score.`, starts with `throughput`, or is test.pass_rate, and
\* lower-is-better for every other name.
C23_DefaultDirection ==
    cmpOut # Null
    => /\ Len(cmpOut[2]) = 1
       /\ cmpOut[2][1].direction = ClaimedDirection(cmpOut[2][1].metric)

\* the default tolerance of a name, as the claim words it
ClaimedTolerance(name) ==
    IF StartsWith(name, S_latency) \/ StartsWith(name, S_ttfb) THEN Rat(1, 5)
    ELSE IF StartsWith(name, S_tokensDot) THEN Rat(1, 10)
    ELSE IF StartsWith(name, S_scoreDot) THEN Rat(1, 20)
    ELSE IF StartsWith(name, S_throughput) THEN Rat(3, 20)
    ELSE IF StartsWith(name, S_error) THEN Num(0)
    ELSE IF name = S_testPassRate THEN Rat(1, 20)
    ELSE IF name = S_testCount THEN Num(0)
    ELSE Rat(1, 10)

\* C24: the record compareMetrics builds for a bare-number baseline entry has
\* the tolerance of the name's pattern: 0.20 for latency* and ttfb*, 0.10 for
\* tokens.*, 0.05 for score.*, 0.15 for throughput*, 0.00 for error*, 0.05 for
\* test.pass_rate, 0.00 for test.count, 0.10 for every other name.
C24_DefaultTolerance ==
    cmpOut # Null
    => /\ Len(cmpOut[2]) = 1
       /\ cmpOut[2][1].tolerance = ClaimedTolerance(cmpOut[2][1].metric)

(***************************************************************************)
(* Per-case metrics of a suite (src/src/preload.ts, uniqueTestRecordKey    *)
(* and buildPerTestMetrics).                                               *)
(***************************************************************************)
MaxCases == 3
Digits == <<"0", "1", "2", "3", "4", "5", "6", "7", "8", "9">>
DigitValue(c) == (CHOOSE i \in 1..10 : Digits[i] = c) - 1
RECURSIVE StrToInt(_)
StrToInt(s) ==
    IF s = <<>> THEN 0 ELSE 10 * StrToInt(SubSeq(s, 1, Len(s) - 1)) + DigitValue(s[Len(s)])
\* a property key that is a canonical array index: an own property with such
\* a key is enumerated before the string keys, in ascending numeric order
IsArrayIndex(k) ==
    /\ k # <<>>
    /\ \A i \in 1..Len(k) : \E d \in 1..10 : Digits[d] = k[i]
    /\ (Len(k) > 1 => k[1] # "0")
\* o[k] = v on a plain object, with the enumeration order of own properties
PropertySet(o, k, v) ==
    IF OHas(o, k) THEN OSet(o, k, v)
    ELSE IF ~IsArrayIndex(k) THEN Append(o, <<k, v>>)
    ELSE LET before == SelectSeq(o, LAMBDA e : IsArrayIndex(e[1]) /\ StrToInt(e[1]) < StrToInt(k))
             after == SelectSeq(o, LAMBDA e : ~(IsArrayIndex(e[1]) /\ StrToInt(e[1]) < StrToInt(k)))
         IN before \o << <<k, v>> >> \o after

\* `${testName} (#${suffix})`
SuffixedName(testName, suffix) == testName \o <<" ", "(", "#">> \o IntToStr(suffix) \o <<")">>
\* mutant of FirstUnusedSuffix: the stored suffix is used without looking
FirstUnusedSuffixUnchecked(testName, usedKeys, suffix) == suffix
\* the while loop of uniqueTestRecordKey
RECURSIVE FirstUnusedSuffix(_, _, _)
FirstUnusedSuffix(testName, usedKeys, suffix) ==
    IF SuffixedName(testName, suffix) \in usedKeys
    THEN FirstUnusedSuffix(testName, usedKeys, suffix + 1)
    ELSE suffix

\* returns the key and the updated usedKeys and nextSuffixByName
uniqueTestRecordKey(testName, usedKeys, nextSuffixByName) ==
    IF testName \notin usedKeys
    THEN [key |-> testName, usedKeys |-> usedKeys \cup {testName},
          nextSuffixByName |-> nextSuffixByName]
    ELSE LET start == IF OHas(nextSuffixByName, testName)
                      THEN OGet(nextSuffixByName, testName) ELSE 2
             suffix == FirstUnusedSuffix(testName, usedKeys, start)
             candidate == SuffixedName(testName, suffix)
         IN [key |-> candidate, usedKeys |-> usedKeys \cup {candidate},
             nextSuffixByName |-> OSet(nextSuffixByName, testName, suffix + 1)]

\* the numeric metrics of a case record
numericMetricsOf(test) == SelectSeq(test.metrics, LAMBDA e : IsNumber(e[2]))

RECURSIVE PerTestLoop(_, _, _, _)
PerTestLoop(perTest, usedKeys, nextSuffixByName, tests) ==
    IF tests = <<>> THEN perTest
    ELSE LET u == uniqueTestRecordKey(Head(tests).testName, usedKeys, nextSuffixByName)
         IN PerTestLoop(PropertySet(perTest, u.key, numericMetricsOf(Head(tests))),
                        u.usedKeys, u.nextSuffixByName, Tail(tests))

\* the entry list of the returned object, in the order Object.keys gives
buildPerTestMetrics(tests) == PerTestLoop(<<>>, {}, <<>>, tests)

S_x == <<"x">>
S_x2 == SuffixedName(S_x, 2)
S_1 == <<"1">>
S_2 == <<"2">>
PerTestNameArgs == {S_x, S_x2, S_1, S_2}
PerTestMetricsArgs ==
    { << <<S_latency, Num(1)>> >>,
      << <<S_latency, Num(2)>>, <<S_value, Bool(TRUE)>> >> }
PerTestCaseArgs ==
    { [createTestEntry(UNKNOWN \o SEP \o S_s, S_s, n) EXCEPT !.metrics = m] :
      n \in PerTestNameArgs, m \in PerTestMetricsArgs }

BuildPerTest ==
    /\ lastCall.op # "buildPerTestMetrics"
    /\ lastCall' = [op |-> "buildPerTestMetrics", ctx |-> 0, args |-> <<>>,
                    ret |-> Returned(buildPerTestMetrics(aggIn.tests))]
    /\ UNCHANGED <<suiteConfigs, suiteNames, evalFiles, testResults, heap,
                   legacyCurrentEntry, currentEntryStorage, body, promise, nCalls,
                   tokenLog, registrations, otherVars>>

InitPerTest ==
    /\ InitCollector
    /\ baselineDoc = Null /\ upserted = <<>>
    /\ cmpIn = Null /\ cmpOut = Null
    /\ \E tests \in SeqsUpTo(PerTestCaseArgs, MaxCases) :
          aggIn = [tests |-> tests, suiteConfig |-> Undefined]
    /\ aggOut = Null

NextPerTest == BuildPerTest

SpecPerTest == InitPerTest /\ [][NextPerTest]_vars

\* the key of record i is its raw name when no earlier record got that key,
\* and otherwise `name (#k)` with k >= 2, a key no earlier record got
KeyAsClaimed(tests, keys, i) ==
    LET earlier == {keys[j] : j \in 1..(i - 1)}
        name == tests[i].testName
    IN /\ keys[i] \notin earlier
       /\ IF name \notin earlier THEN keys[i] = name
          ELSE \E k \in 2..(Len(tests) + 1) : keys[i] = SuffixedName(name, k)

\* C27 (the claim as stated): one key per record, pairwise distinct, in record
\* order, each with the numeric metrics of its record, the key being the raw
\* name when it is free and `name (#k)` with an unused k >= 2 otherwise.
C27_PerTestKeysInRecordOrder ==
    lastCall.op = "buildPerTestMetrics"
    => LET perTest == lastCall.ret[2]
           tests == aggIn.tests
           keys == [i \in 1..Len(perTest) |-> perTest[i][1]]
       IN /\ Len(perTest) = Len(tests)
          /\ \A i \in 1..Len(tests) :
                /\ perTest[i][2] = numericMetricsOf(tests[i])
                /\ KeyAsClaimed(tests, keys, i)

\* C27 (amended): one key per record, pairwise distinct, each with the numeric
\* metrics of its record, the key being the raw name when no earlier record
\* got it and `name (#k)` with an unused k >= 2 otherwise; the keys that are
\* not canonical array indices are in record order, those that are (a case
\* named `2`) come first, in ascending numeric order.
C27_PerTestKeysInPropertyOrder ==
    lastCall.op = "buildPerTestMetrics"
    => LET perTest == lastCall.ret[2]
           tests == aggIn.tests
           n == Len(tests)
       IN /\ Len(perTest) = n
          /\ \E f \in {g \in [1..n -> 1..n] : \A i, j \in 1..n : g[i] = g[j] => i = j} :
                LET keys == [i \in 1..n |-> perTest[f[i]][1]]
                IN /\ \A i \in 1..n :
                         /\ perTest[f[i]][2] = numericMetricsOf(tests[i])
                         /\ KeyAsClaimed(tests, keys, i)
                   /\ \A i, j \in 1..n :
                         (i < j /\ ~IsArrayIndex(keys[i]) /\ ~IsArrayIndex(keys[j]))
                         => f[i] < f[j]
          /\ \A a, b \in 1..n :
                a < b => \/ ~IsArrayIndex(perTest[b][1])
                         \/ /\ IsArrayIndex(perTest[a][1])
                            /\ StrToInt(perTest[a][1]) < StrToInt(perTest[b][1])

\* C27 witness: the records x, x, `x (#2)` got the keys x, `x (#2)` and
\* `x (#2) (#2)`
C27_Witness ==
    /\ lastCall.op = "buildPerTestMetrics"
    /\ Len(aggIn.tests) = 3
    /\ aggIn.tests[1].testName = S_x /\ aggIn.tests[2].testName = S_x
    /\ aggIn.tests[3].testName = S_x2
    /\ lastCall.ret[2][2][1] = S_x2
    /\ lastCall.ret[2][3][1] = SuffixedName(S_x2, 2)

(***************************************************************************)
(* The reporting step with the baseline file on disk (src/src/baseline.ts, *)
(* loadBaseline; src/src/preload.ts, prepareSuiteReport).  baselineDoc     *)
(* holds the state of the file; cmpOut the outcome of prepareSuiteReport.  *)
(***************************************************************************)
NoFile == <<"file", "absent", <<>>>>
UnreadableFile == <<"file", "unreadable", <<>>>>
UnparsableFile == <<"file", "unparsable", <<>>>>
JsonFile(doc) == <<"file", "json", doc>>
Thrown(exception) == <<"thrown", exception>>

\* existsSync, readFileSync, JSON.parse: the parsed document, null when the
\* file does not exist, or the exception of the read or of the parse
loadBaseline(file) ==
    IF file[2] = "absent" THEN Returned(Null)
    ELSE IF file[2] = "unreadable" THEN Thrown("Error")
    ELSE IF file[2] = "unparsable" THEN Thrown("SyntaxError")
    ELSE Returned(file[3])

\* the per-case comparisons with a regression, by case key
RECURSIVE comparePerTestLoop(_, _, _)
comparePerTestLoop(perTestComparisons, perTest, baseline) ==
    IF perTest = <<>> THEN perTestComparisons
    ELSE LET testName == Head(perTest)[1]
             metrics == Head(perTest)[2]
             baselineTest == OGet(baseline[2], baselineTestEntryKey(testName))
             testComparisons == compareMetrics(metrics, baselineTest[2])
         IN comparePerTestLoop(
                IF Falsy(baselineTest) \/ ~IsObject(baselineTest) THEN perTestComparisons
                ELSE IF \E i \in 1..Len(testComparisons) : testComparisons[i].regressed
                     THEN OSet(perTestComparisons, testName, testComparisons)
                     ELSE perTestComparisons,
                Tail(perTest), baseline)

comparePerTestMetrics(perTest, baseline) == comparePerTestLoop(<<>>, perTest, baseline)

\* the suite report, or the exception that leaves prepareSuiteReport
prepareSuiteReport(tests, suiteConfig, suiteKey, file) ==
    LET aggregates == aggregateMetrics(tests, suiteConfig)
        perTest == buildPerTestMetrics(tests)
        loaded == loadBaseline(file)
        baseline == loaded[2]
        suiteBaseline == IF baseline = Null THEN Null
                         ELSE resolveSuiteBaseline(baseline, suiteKey)
        comparisons ==
            IF suiteBaseline # Null /\ ~Falsy(OGet(suiteBaseline[2], K_aggregate))
            THEN compareMetrics(aggregates, OGet(suiteBaseline[2], K_aggregate)[2])
            ELSE <<>>
        perTestComparisons ==
            IF suiteBaseline # Null THEN comparePerTestMetrics(perTest, suiteBaseline)
            ELSE <<>>
    IN IF tests = <<>> THEN Returned(Null)
       ELSE IF loaded[1] = "thrown" THEN loaded
       ELSE Returned([testCount |-> Len(tests), aggregates |-> aggregates,
                      comparisons |-> comparisons,
                      perTestComparisons |-> perTestComparisons, perTest |-> perTest])

\* a stored document whose suite `s` has the given aggregate and a case `a`
StoredReportDoc(aggregate) ==
    << <<K_meta, createBaseMeta(PathA, <<"0">>)>>,
       <<K_aggregate, Obj(aggregate)>>,
       <<K_suites, Obj(<< <<S_s, Obj(<< <<K_aggregate, Obj(aggregate)>>,
                                        <<S_a, Obj(<< <<S_latency, Num(1)>> >>)>> >>)>> >>)>> >>
BaselineFileArgs ==
    {NoFile, UnreadableFile, UnparsableFile}
    \cup {JsonFile(StoredReportDoc(a)) : a \in ReportBaselineArgs}

PrepareSuiteReport ==
    /\ cmpOut = Null
    /\ aggOut' = Returned(aggregateMetrics(aggIn.tests, aggIn.suiteConfig))
    /\ cmpOut' = prepareSuiteReport(aggIn.tests, aggIn.suiteConfig,
                                    UNKNOWN \o SEP \o S_s, baselineDoc)
    /\ UNCHANGED <<collectorVars, baselineDoc, upserted, cmpIn, aggIn>>

InitLoad ==
    /\ InitCollector
    /\ baselineDoc \in BaselineFileArgs
    /\ upserted = <<>>
    /\ cmpIn = Null /\ cmpOut = Null
    /\ \E tests \in SeqsUpTo(ReportCaseArgs, MaxTests) \ {<<>>} :
          aggIn = [tests |-> tests, suiteConfig |-> Undefined]
    /\ aggOut = Null

NextLoad == PrepareSuiteReport

SpecLoad == InitLoad /\ [][NextLoad]_vars

\* C25: when the baseline file exists but cannot be read or parsed, the
\* reporting step raises no error and returns the suite report with an empty
\* comparison list.
C25_BrokenBaselineFileMeansNoBaseline ==
    (cmpOut # Null /\ baselineDoc[2] \in {"unreadable", "unparsable"})
    => /\ cmpOut[1] = "returned"
       /\ cmpOut[2].comparisons = <<>>

(***************************************************************************)
(* A case of evalSuite (src/unnamed/part_003, runSingleEval; src/src/      *)
(* measure.ts, measure): task t runs data item t inside collector.runTest  *)
(* and measure.  Each action is the synchronous stretch between two awaits;*)
(* the position of a running case is read off its record: the task is      *)
(* awaited while the record has no output, scorer i while it has i - 1     *)
(* scorer results.                                                         *)
(***************************************************************************)
S_e1 == <<"e", "1">>
S_e2 == <<"e", "2">>
\* config.scorers, config.passThreshold
EvalScorers == <<S_e1, S_e2>>
EvalPassThreshold == Rat(1, 2)
\* the data items of the suite: item t is run as case t
EvalItemOf(t) ==
    [name |-> IF t = 1 THEN S_a ELSE S_b, input |-> <<"in">>, expected |-> <<"exp">>,
     weight |-> IF t = 1 THEN Undefined ELSE Num(2)]
TaskOutputArgs == {<<"out">>}
ScorerReturnArgs == {Num(1), Rat(3, 10)}
LatencyArgs == {Num(3)}

\* a recording call made in context ctx, applied to the heap
RecordedBy(h, ctx, updated(_)) ==
    LET entry == currentEntry(ctx)
    IN IF entry = NoEntry THEN h ELSE [h EXCEPT ![entry] = updated(@)]

\* a measure whose catch block records nothing
MeasureWithoutCatch(h, ctx, latency) ==
    RecordedBy(h, ctx, LAMBDA e : recordMetricOn(e, S_latency, latency))

\* measure: the catch block followed by the finally block
MeasureCatchFinally(h, ctx, latency) ==
    LET h1 == RecordedBy(h, ctx, LAMBDA e : recordMetricOn(e, S_error, Num(1)))
        h2 == RecordedBy(h1, ctx, LAMBDA e : setTestPassedOn(e, FALSE))
        h3 == RecordedBy(h2, ctx, LAMBDA e : recordMetricOn(e, S_latency, latency))
    IN RecordedBy(h3, ctx, LAMBDA e : recordMetricOn(e, S_error, Num(1)))

\* measure: the finally block after fn has returned
MeasureFinally(h, ctx, latency) ==
    RecordedBy(h, ctx, LAMBDA e : recordMetricOn(e, S_latency, latency))

\* runSingleEval up to `await config.task(item.input)`
StartCase(t) ==
    /\ promise[t] = <<"idle">>
    /\ \A u \in Tasks : u < t => promise[u] # <<"idle">>
    /\ Len(heap) < MaxEntries
    /\ LET item == EvalItemOf(t)
           entry == createTestEntry(UNKNOWN \o SEP \o S_s, S_s, item.name)
       IN /\ heap' = Append(heap, IF item.weight # Undefined
                                  THEN setWeightOn(entry, item.weight) ELSE entry)
          /\ testResults' = Push(testResults, Len(heap) + 1)
          /\ currentEntryStorage' = [currentEntryStorage EXCEPT ![t] = Len(heap) + 1]
    /\ body' = [body EXCEPT ![t] = "running"]
    /\ promise' = [promise EXCEPT ![t] = <<"pending">>]
    /\ lastCall' = Called("runSingleEval", t, <<>>, "pending")
    /\ tokenLog' = Append(tokenLog, <<>>)
    /\ UNCHANGED <<suiteConfigs, suiteNames, evalFiles, legacyCurrentEntry,
                   registrations, nCalls, otherVars>>

AwaitsTask(t) ==
    /\ body[t] = "running"
    /\ heap[currentEntryStorage[t]].output = Undefined
AwaitsScorer(t) ==
    /\ body[t] = "running"
    /\ heap[currentEntryStorage[t]].output # Undefined

\* the end of the measured function: the threshold check, then finally
FinishCase(h, t, latency) ==
    LET results == h[currentEntryStorage[t]].scorerResults
        failed == \E i \in 1..Len(results) : JsLt(results[i].score, EvalPassThreshold)
        h1 == IF failed THEN RecordedBy(h, t, LAMBDA e : setTestPassedOn(e, FALSE)) ELSE h
    IN MeasureFinally(h1, t, latency)

\* the task resolves: the context is stored and the first scorer is called
TaskReturns(t, output, latency) ==
    /\ AwaitsTask(t)
    /\ LET item == EvalItemOf(t)
           h1 == RecordedBy(heap, t, LAMBDA e : setTestContextOn(e,
                     [input |-> item.input, output |-> output, expected |-> item.expected]))
       IN /\ heap' = IF EvalScorers = <<>> THEN FinishCase(h1, t, latency) ELSE h1
          /\ body' = IF EvalScorers = <<>>
                     THEN [body EXCEPT ![t] = <<"returned", Undefined>>] ELSE body
    /\ lastCall' = Called("taskReturned", t, output, "done")
    /\ UNCHANGED <<suiteConfigs, suiteNames, evalFiles, testResults, tokenLog,
                   registrations, legacyCurrentEntry, currentEntryStorage, promise,
                   nCalls, otherVars>>

\* the task or the awaited scorer throws: catch, finally, and the exception
\* leaves measure and the body of runTest
Throws(t, exception, latency, op) ==
    /\ heap' = MeasureCatchFinally(heap, t, latency)
    /\ body' = [body EXCEPT ![t] = <<"threw", exception>>]
    /\ lastCall' = Called(op, t, exception, "done")
    /\ UNCHANGED <<suiteConfigs, suiteNames, evalFiles, testResults, tokenLog,
                   registrations, legacyCurrentEntry, currentEntryStorage, promise,
                   nCalls, otherVars>>

TaskThrows(t, exception, latency) ==
    AwaitsTask(t) /\ Throws(t, exception, latency, "taskThrew")

ScorerThrows(t, exception, latency) ==
    AwaitsScorer(t) /\ Throws(t, exception, latency, "scorerThrew")

\* the awaited scorer resolves: its score is recorded, then the next scorer is
\* called or the case is finished
ScorerReturns(t, rawResult, latency) ==
    /\ AwaitsScorer(t)
    /\ LET i == Len(heap[currentEntryStorage[t]].scorerResults) + 1
           scoreValue == IF IsNumber(rawResult) THEN rawResult ELSE rawResult.score
           h1 == RecordedBy(heap, t, LAMBDA e : recordScoreOn(e, EvalScorers[i], scoreValue))
           h2 == RecordedBy(h1, t, LAMBDA e : addScorerResultOn(e,
                     [name |-> EvalScorers[i], score |-> scoreValue]))
       IN /\ heap' = IF i = Len(EvalScorers) THEN FinishCase(h2, t, latency) ELSE h2
          /\ body' = IF i = Len(EvalScorers)
                     THEN [body EXCEPT ![t] = <<"returned", Undefined>>]
                     ELSE body
    /\ lastCall' = Called("scorerReturned", t, rawResult, "done")
    /\ UNCHANGED <<suiteConfigs, suiteNames, evalFiles, testResults, tokenLog,
                   registrations, legacyCurrentEntry, currentEntryStorage, promise,
                   nCalls, otherVars>>

NextEval ==
    \/ \E t \in Tasks : StartCase(t)
    \/ \E t \in Tasks, o \in TaskOutputArgs, l \in LatencyArgs : TaskReturns(t, o, l)
    \/ \E t \in Tasks, e \in Exceptions, l \in LatencyArgs : TaskThrows(t, e, l)
    \/ \E t \in Tasks, r \in ScorerReturnArgs, l \in LatencyArgs : ScorerReturns(t, r, l)
    \/ \E t \in Tasks, e \in Exceptions, l \in LatencyArgs : ScorerThrows(t, e, l)
    \/ \E t \in Tasks : RunTestSettles(t)

SpecEval == Init /\ [][NextEval]_vars

\* C26: when the task or a scorer of a case throws, the case's record is in
\* the result list with error = 1, passed = false and a latency metric, no
\* further scorer runs for it (its record no longer changes), and runTest
\* rejects with the exception thrown; a step of one case changes the record of
\* no other case.
C26_ThrowingCaseIsRecordedAndReraised ==
    [][\A t \in Tasks :
          /\ (body'[t] # "idle" /\ body'[t] # "running" /\ body'[t][1] = "threw")
             => LET entry == heap'[currentEntryStorage'[t]]
                IN /\ \E i \in 1..Len(testResults') : testResults'[i] = currentEntryStorage'[t]
                   /\ OGet(entry.metrics, S_error) = Num(1)
                   /\ entry.passed = FALSE
                   /\ OHas(entry.metrics, S_latency)
                   /\ Len(entry.scorerResults) < Len(EvalScorers)
                   /\ promise'[t][1] \in {"pending", "rejected"}
                   /\ promise'[t][1] = "rejected" => promise'[t][2] = body'[t][2]
          /\ (body[t] # "idle" /\ body[t] # "running" /\ body[t][1] = "threw")
             => heap'[currentEntryStorage[t]] = heap[currentEntryStorage[t]]
          /\ (currentEntryStorage[t] # NoEntry /\ lastCall'.ctx # t)
             => heap'[currentEntryStorage[t]] = heap[currentEntryStorage[t]]]_vars

\* C26 witness: the second scorer of one case threw after its first scorer had
\* scored, the case was rejected, and the other case, still waiting for its
\* task at that time, has passed with both scores
C26_Witness ==
    /\ MaxTasks >= 2
    /\ promise[1][1] = "rejected"
    /\ Len(heap[currentEntryStorage[1]].scorerResults) = 1
    /\ promise[2][1] = "fulfilled"
    /\ heap[currentEntryStorage[2]].passed = TRUE
    /\ Len(heap[currentEntryStorage[2]].scorerResults) = 2
    /\ ~OHas(heap[currentEntryStorage[2]].metrics, S_error)

(***************************************************************************)
(* A baseline document that starts without a file and is written only by   *)
(* upsertSuiteBaseline, for suites with plain names.                        *)
(***************************************************************************)
FreshSuiteKeyArgs == {PathA \o SEP \o n : n \in {S_s, S_t, S_u}}

InitFresh ==
    /\ InitBaseline
    /\ baselineDoc = Null

NextFresh ==
    \E k \in FreshSuiteKeyArgs, a \in AggregateArgs, p \in PerTestArgs :
        UpdateBaseline(k, a, p)

SpecFresh == InitFresh /\ [][NextFresh]_vars

\* the stable ids written so far
UpsertedIds == {suiteIdFromSuiteKey(upserted[i].suiteKey) : i \in 1..Len(upserted)}

\* C28: in a document produced only by upsertSuiteBaseline, a suite key whose
\* stable id was never upserted resolves to null
C28_NeverUpsertedResolvesToNull ==
    baselineDoc # Null =>
        \A k \in FreshSuiteKeyArgs :
            suiteIdFromSuiteKey(k) \notin UpsertedIds
                => resolveSuiteBaseline(baselineDoc, k) = Null

(***************************************************************************)
(* Recording calls of a running body while beginTest / endTest are used.   *)
(***************************************************************************)
\* what the recording call `call` does to the entry it resolved
EffectOf(call, entry) ==
    CASE call.op = "recordMetric" -> recordMetricOn(entry, call.args[1], call.args[2])
      [] call.op = "recordScore" -> recordScoreOn(entry, call.args[1], call.args[2])
      [] call.op = "recordTokens" -> recordTokensOn(entry, call.args)
      [] call.op = "setWeight" -> setWeightOn(entry, call.args)
      [] call.op = "setTestPassed" -> setTestPassedOn(entry, call.args)
      [] call.op = "setTestContext" -> setTestContextOn(entry, call.args)
      [] call.op = "addScorerResult" -> addScorerResultOn(entry, call.args)

\* C29: a recording call made inside a running runTest body is applied to
\* that body's record and to no other, whether or not beginTest has set the
\* legacy slot; beginTest and endTest change neither the binding of a body
\* nor an existing record; a recording call that is applied to the record of
\* the legacy slot was made outside every runTest body.
C29_LegacySlotNeverServesABody ==
    [][/\ \A a \in Tasks :
             (lastCall'.op \in RecordingOps /\ lastCall'.ctx = a)
             => /\ body[a] = "running" /\ currentEntryStorage[a] # NoEntry
                /\ lastCall'.ret = "done"
                /\ heap'[currentEntryStorage[a]]
                      = EffectOf(lastCall', heap[currentEntryStorage[a]])
                /\ \A ref \in 1..Len(heap) :
                      ref # currentEntryStorage[a] => heap'[ref] = heap[ref]
       /\ lastCall'.op \in {"beginTest", "endTest"}
             => /\ currentEntryStorage' = currentEntryStorage
                /\ \A ref \in 1..Len(heap) : heap'[ref] = heap[ref]
       /\ (/\ lastCall'.op \in RecordingOps
           /\ legacyCurrentEntry # NoEntry
           /\ heap'[legacyCurrentEntry] # heap[legacyCurrentEntry])
             => lastCall'.ctx = Outside]_vars

\* C29 witness: beginTest has set the legacy slot to another record while a
\* body is running, and the recording call just made inside the body went to
\* the body's record, the record of the legacy slot being as it was created
C29_Witness ==
    \E a \in Tasks :
        /\ body[a] = "running"
        /\ legacyCurrentEntry # NoEntry
        /\ legacyCurrentEntry # currentEntryStorage[a]
        /\ currentEntryStorage[a] < legacyCurrentEntry
        /\ lastCall.op \in RecordingOps /\ lastCall.ctx = a /\ lastCall.ret = "done"
        /\ ~Fresh(currentEntryStorage[a])
        /\ Fresh(legacyCurrentEntry)

(***************************************************************************)
(* upsertSuiteBaseline on objects with identity.  An object store is a     *)
(* sequence of objects, an object is its entry list, and a value is a      *)
(* primitive or a reference <<"ref", address>> to an object of the store.  *)
(* A statement that assigns to a property of an object changes the store   *)
(* at the address the code's reference holds; an object literal, a spread  *)
(* or a parse allocates.                                                   *)
(***************************************************************************)
Ref(address) == <<"ref", address>>
IsRef(v) == v[1] = "ref"

\* an object literal / `{}` filled afterwards: a new object with these entries
NewObject(objects, entries) ==
    [objects |-> Append(objects, entries), value |-> Ref(Len(objects) + 1)]

\* a freshly built value (JSON.parse, or a function returning new objects)
RECURSIVE AllocValue(_, _)
RECURSIVE AllocEntries(_, _, _)
AllocValue(objects, v) ==
    IF IsObject(v)
    THEN LET r == AllocEntries(objects, v[2], <<>>)
         IN NewObject(r.objects, r.entries)
    ELSE [objects |-> objects, value |-> v]
AllocEntries(objects, entries, done) ==
    IF entries = <<>> THEN [objects |-> objects, entries |-> done]
    ELSE LET r == AllocValue(objects, Head(entries)[2])
             \* the value of this entry is built before the next one
             built == Append(done, <<Head(entries)[1], r.value>>)
         IN IF Len(built) > 0 /\ Len(r.objects) >= 0
            THEN AllocEntries(r.objects, Tail(entries), built)
            ELSE [objects |-> objects, entries |-> done]

\* the value a reference stands for (what JSON.stringify would write)
RECURSIVE DerefValue(_, _)
DerefEntries(objects, entries) ==
    [i \in 1..Len(entries) |-> <<entries[i][1], DerefValue(objects, entries[i][2])>>]
DerefValue(objects, v) ==
    IF IsRef(v) THEN Obj(DerefEntries(objects, objects[v[2]])) ELSE v

\* a slip: `next = existing; next._meta = ...` instead of the spread
AssignMetaInPlace(objects, existing, meta) ==
    [objects |-> [objects EXCEPT ![existing[2]] = OSet(@, K_meta, meta)],
     value |-> existing]

\* { ...existing, _meta: createBaseMeta(evalFilePath) }
SpreadWithMeta(objects, existing, meta) ==
    NewObject(objects, OSet(objects[existing[2]], K_meta, meta))

normalizeSuitesValueRef(objects, value) ==
    IF ~IsRef(value) THEN NewObject(objects, <<>>)
    ELSE NewObject(objects,
             SelectSeq(objects[value[2]],
                 LAMBDA e : IsRef(e[2]) /\ OHas(objects[e[2][2]], K_aggregate)))

normalizeSuitesByStableIdRef(objects, suites) ==
    NewObject(objects, normalizeSuitesByStableId(objects[suites[2]]))

\* existing: Null or a reference; returns the store after the call and the
\* reference returned
upsertSuiteBaselineRef(objects, evalFilePath, existing, suiteKey, aggregates, perTest, now) ==
    LET a1 == AllocValue(objects, buildSuiteBaselineData(aggregates, perTest))
        suiteData == a1.value
        stableSuiteId == suiteIdFromSuiteKey(suiteKey)
        a2 == AllocValue(a1.objects, createBaseMeta(evalFilePath, now))
        a3 == IF existing # Null
              THEN SpreadWithMeta(a2.objects, existing, a2.value)
              ELSE NewObject(a2.objects,
                       << <<K_meta, a2.value>>,
                          <<K_aggregate, OGet(a2.objects[suiteData[2]], K_aggregate)>> >>)
        next == a3.value
        a4 == normalizeSuitesValueRef(a3.objects,
                  IF existing = Null THEN Undefined
                  ELSE OGet(a3.objects[existing[2]], K_suites))
        a5 == normalizeSuitesByStableIdRef(a4.objects, a4.value)
        suites == a5.value
        o6 == [a5.objects EXCEPT ![suites[2]] = OSet(@, stableSuiteId, suiteData)]
        o7 == [o6 EXCEPT ![next[2]] = OSet(@, K_suites, suites)]
        o8 == [o7 EXCEPT ![next[2]] = assignLegacySuiteData(@, Obj(o7[suiteData[2]]))]
    IN [objects |-> o8, value |-> next]

\* loadBaseline: the parsed file, or null
ParsedBaseline(doc) ==
    IF doc = Null THEN [objects |-> <<>>, value |-> Null]
    ELSE AllocValue(<<>>, Obj(doc))

\* updateBaselineIfRequested: load, upsert, save
UpdateBaselineRef(suiteKey, aggregates, perTest) ==
    /\ Len(upserted) < MaxUpserts
    /\ LET loaded == ParsedBaseline(baselineDoc)
           r == upsertSuiteBaselineRef(loaded.objects, PathA, loaded.value, suiteKey,
                                       aggregates, perTest, IntToStr(Len(upserted) + 1))
       IN /\ lastCall' = [op |-> "upsertSuiteBaseline", ctx |-> 0,
                          args |-> [objects |-> loaded.objects, existing |-> loaded.value],
                          ret |-> r]
          /\ baselineDoc' = DerefEntries(r.objects, r.objects[r.value[2]])
    /\ upserted' = Append(upserted, [suiteKey |-> suiteKey, aggregates |-> aggregates,
                                     perTest |-> perTest])
    /\ UNCHANGED <<suiteConfigs, suiteNames, evalFiles, testResults, heap,
                   legacyCurrentEntry, currentEntryStorage, body, promise, nCalls,
                   tokenLog, registrations, timeoutVars, compareVars, aggregateVars>>

NextStore ==
    \E k \in BaselineSuiteKeyArgs, a \in AggregateArgs, p \in PerTestArgs :
        UpdateBaselineRef(k, a, p)

SpecStore == InitBaseline /\ [][NextStore]_vars

\* C30: after upsertSuiteBaseline(evalFilePath, existing, ...) the object
\* `existing` and every object it refers to hold what they held before the
\* call (the same top-level keys, _meta, _suites keys and data), and the
\* returned document is another object.
C30_ExistingIsNotModified ==
    (lastCall.op = "upsertSuiteBaseline" /\ lastCall.args.existing # Null)
    => /\ DerefValue(lastCall.ret.objects, lastCall.args.existing)
              = DerefValue(lastCall.args.objects, lastCall.args.existing)
       /\ \A address \in 1..Len(lastCall.args.objects) :
              lastCall.ret.objects[address] = lastCall.args.objects[address]
       /\ lastCall.ret.value # lastCall.args.existing

\* C30 witness: the call was given a document with a _suites object written
\* by an earlier call and returned a document with other contents
C30_Witness ==
    /\ lastCall.op = "upsertSuiteBaseline"
    /\ lastCall.args.existing # Null
    /\ Len(upserted) = 2
    /\ upserted[1].suiteKey # upserted[2].suiteKey
    /\ OHas(lastCall.args.objects[lastCall.args.existing[2]], K_suites)
    /\ DerefValue(lastCall.ret.objects, lastCall.ret.value)
           # DerefValue(lastCall.args.objects, lastCall.args.existing)

\* the call on objects returns the document of the call on values
UpsertOnObjectsAgreesWithValues ==
    [][lastCall'.op = "upsertSuiteBaseline"
       => baselineDoc' = upsertSuiteBaseline(PathA, baselineDoc,
                             upserted'[Len(upserted')].suiteKey,
                             upserted'[Len(upserted')].aggregates,
                             upserted'[Len(upserted')].perTest,
                             IntToStr(Len(upserted')))]_vars

====
